---- MODULE Spec2Model ----
(***************************************************************************)
(* A model of the mapTiles viewers.                                        *)
(*                                                                         *)
(* Strings that the code builds or takes apart are sequences of tokens: a  *)
(* token is a piece of text that the code never splits further, so string  *)
(* concatenation is \o and 'the first occurrence of .pmtiles' is the first *)
(* position holding the token ".pmtiles".                                  *)
(***************************************************************************)
EXTENDS Integers, Sequences, FiniteSets, TLC

VARIABLES
    \* ---- TileConfig (src/custom/2-viewer/src/js/config.js:6-319)
    pmtilesSource,      \* this.pmtilesSource
    hostname,           \* window.location.hostname
    pathname,           \* window.location.pathname, split at '/'
    isLocalhost,        \* this.isLocalhost
    isGitHubPages,      \* this.isGitHubPages
    isCloudflarePages,  \* this.isCloudflarePages
    endpoints,          \* this.endpoints
    currentEndpoint,    \* this.currentEndpoint
    \* ---- one call of selectBestEndpoint()
    selPc,              \* the statement the call is at
    probes,             \* the availability probes the call has sent, in order
    selResult,          \* the value the call resolved with
    \* ---- OvertureMap.init()
    initPc,             \* the statement init() is at
    initLog,            \* what init() has done, with the endpoint it saw
    lastCall,           \* the last direct call of getPMTilesUrl / getPMTilesBaseUrl
    \* ---- a direct call of the URL builders on a given archive name
    tileName,           \* the argument
    urlOut,             \* what getPMTilesUrl returned
    baseUrlOut,         \* what getPMTilesBaseUrl returned
    \* ---- OvertureMap: style loading
    style,              \* the style object loadStyle() works on
    stylePc,            \* the statement loadStyle() is at
    filterArg,          \* the style filterAvailableSources() was called with
    filterRet,          \* the style filterAvailableSources() returned
    filterProbes,       \* the checkPMTilesExists() calls it made
    styleTemplate,      \* the style template loadStyle() fetches
    styleOrigin,        \* what the returned style was built from
    \* ---- OvertureMap: draw order
    layerDrawOrder,     \* this.layerDrawOrder, its entries in insertion order
    sortArg,            \* the layers sortLayersByDrawOrder() was called with
    mapExists,          \* this.map is set
    mapLayers,          \* the ids of the live map's layers, bottom to top
    lastOrderCall,      \* the last addLayerWithOrder / updateLayerOrder call
    \* ---- OvertureMap: the live map's layers and its life cycle
    layerTypes,         \* the type of each live layer
    sortKeys,           \* the symbol-sort-key layout property of the live layers that have one
    labelCall,          \* the last applyLabelPriorities() call
    protocolSet,        \* this.protocol is set
    registered,         \* the protocol names registered with maplibregl
    mapRemoved,         \* map.remove() was called on the map instance
    destroyRet,         \* how the destroy() call ended
    \* ---- OvertureMap: options and tile metadata
    callerOptions,      \* the options the constructor was called with
    options,            \* this.options
    tileMetadata,       \* this.tileMetadata, and the request that fetched it
    \* ---- the pmtiles app (src/pmtiles/app/src/config.ts, MapView.tsx)
    env,                \* import.meta.env as the build saw it
    appConfig,          \* APP_CONFIG.tiles
    tsCall,             \* the last getTileSourceConfig() call and its result
    validation,         \* what the last validateConfig() call returned
    logOut,             \* how the last logConfig() call ended, and its warnings
    mount,              \* where the viewer's onMount callback is
    osmIn,              \* a type code, an entity id and the feature id encoding them
    osmOut,             \* what featureIdToOsmId, featureIdToOsmType and displayId gave
    \* ---- the shell scripts
    upload,             \* a run of upload-pmtiles.sh
    terrain,            \* a run of download-terrain.sh
    merge,              \* a run of merge-grid3.sh
    manage,             \* a run of manage.sh
    sprites,            \* a run of the sprite generator
    deploy,             \* a run of deploy.sh
    \* ---- the primary viewer (src/pmtiles/app/src/MapView.tsx)
    press,              \* the long-press timers and the context menu
    reactive,           \* the style memo, the map instance and setStyle
    errorView,          \* the error signal and what the viewer shows
    \* ---- OvertureMap: mobile touch optimizations
    mobile              \* the gestures in progress, the timers and the canvas

configVars == <<pmtilesSource, hostname, pathname, isLocalhost, isGitHubPages,
                isCloudflarePages, endpoints>>
selectVars == <<selPc, probes, selResult>>
initVars   == <<initPc, initLog, lastCall>>
urlVars    == <<tileName, urlOut, baseUrlOut>>
styleVars  == <<style, stylePc, filterArg, filterRet, filterProbes, styleTemplate,
                styleOrigin>>

orderVars  == <<layerDrawOrder, sortArg, mapExists, mapLayers, lastOrderCall>>

\* the variables outside TileConfig and init(), outside the URL builders, and
\* outside style loading
labelVars  == <<layerTypes, sortKeys, labelCall>>

\* the variables of the operations modelled after draw ordering
lifeVars   == <<protocolSet, registered, mapRemoved, destroyRet>>
metaVars   == <<callerOptions, options, tileMetadata>>
appVars    == <<env, appConfig, tsCall, validation, logOut, mount>>

\* the programs beside the legacy viewer
osmVars    == <<osmIn, osmOut>>
scriptVars == <<upload, terrain>>
opsVars    == <<merge, manage, sprites, deploy>>
viewVars   == <<press, reactive, errorView>>
restVars   == <<opsVars, viewVars>>
mobileVars == <<mobile>>
laterVars  == <<appVars, osmVars, scriptVars, restVars>>
otherVars  == <<labelVars, lifeVars, metaVars, mobileVars, laterVars>>

notTileConfig == <<urlVars, styleVars, orderVars, otherVars>>
notUrl        == <<styleVars, orderVars, otherVars>>
tileConfigVars == <<configVars, currentEndpoint, selectVars, initVars>>

\* the legacy viewer (src/custom/2-viewer/src/js/config.js)
legacyVars == <<tileConfigVars, urlVars, styleVars, orderVars, labelVars, lifeVars,
                metaVars, mobileVars>>

\* what each of the other programs leaves alone
notApp == <<legacyVars, osmVars, scriptVars, restVars>>
notOsm == <<legacyVars, appVars, scriptVars, restVars>>
notScripts == <<legacyVars, appVars, osmVars, restVars>>
notOps == <<legacyVars, appVars, osmVars, scriptVars, viewVars>>
notView == <<legacyVars, appVars, osmVars, scriptVars, opsVars>>

vars == <<configVars, currentEndpoint, selectVars, initVars, urlVars, styleVars,
          orderVars, otherVars>>

----------------------------------------------------------------------------
(* Values *)

Null     == "null"                  \* JavaScript null for an endpoint name
NullStr  == <<"#null">>             \* JavaScript null where a string is expected
NotYet   == <<"#notyet">>           \* no value produced so far
ErrNotSelected == <<"#Error", "Endpoint not selected. Call selectBestEndpoint() first.">>

\* `${x}` in a template literal: null is written as the text null
Str(x) == IF x = NullStr THEN <<"null">> ELSE x

\* s.includes(t) for a token t
Includes(s, t) == \E i \in 1..Len(s) : s[i] = t

----------------------------------------------------------------------------
(* TileConfig: construction *)

SourceModes == {"auto", "cloudflare", "caddy", "local"}

Hostnames ==
    { <<"localhost">>, <<"127.0.0.1">>, <<"user", ".", "github.io">>,
      <<"app", ".pages.dev">>, <<"maps", ".", "example.org">> }

\* pathname.split('/'): "/" and "/mapTiles/"
Pathnames == { <<"", "">>, <<"", "mapTiles", "">> }

WorkerUrls == { <<>>, <<"https://x.example/worker">> }

CaddyBase == <<"http://", "127.0.0.1", ":", "3002">>

NewEndpoints(workerUrl) ==
    [ cloudflare |-> [ enabled |-> workerUrl # <<>>, url |-> workerUrl ],
      caddy      |-> [ pmtiles |-> CaddyBase \o <<"/static">>,
                       mvt     |-> CaddyBase \o <<"/mvt">>,
                       health  |-> CaddyBase \o <<"/health">> ],
      local      |-> [ pmtiles |-> NullStr ] ]

HostIsLocalhost(h)       == h = <<"localhost">> \/ h = <<"127.0.0.1">>
HostIsGitHubPages(h)     == Includes(h, "github.io")
HostIsCloudflarePages(h) == Includes(h, ".pages.dev")

\* the value detectEnvironment() leaves in endpoints.local.pmtiles
LocalPmtilesFor(h, p) ==
    LET repoName == IF p[2] # "" THEN p[2] ELSE ""
        basePath == IF repoName # "" THEN <<"/", repoName>> ELSE <<>>
    IN  IF HostIsGitHubPages(h) THEN basePath \o <<"/tiles">>
        ELSE IF HostIsLocalhost(h) THEN <<"./tiles">>
        ELSE IF HostIsCloudflarePages(h) THEN <<"./tiles">>
        ELSE NullStr

\* the TileConfig fields after `new TileConfig()`
ConstructedConfig(mode, h, p, workerUrl) ==
    /\ pmtilesSource = mode
    /\ hostname = h
    /\ pathname = p
    /\ isLocalhost = HostIsLocalhost(h)
    /\ isGitHubPages = HostIsGitHubPages(h)
    /\ isCloudflarePages = HostIsCloudflarePages(h)
    /\ endpoints = [ NewEndpoints(workerUrl) EXCEPT
                       !.local.pmtiles = LocalPmtilesFor(h, p) ]

----------------------------------------------------------------------------
(* TileConfig: availability probes *)

\* what a fetch can end in: a 2xx response, a 404, another status, or an
\* exception (abort on timeout, network or CORS failure)
FetchOutcomes == {"ok", "notfound", "servererror", "aborted"}

\* checkCloudflareAvailability(), given how its fetch ended
CheckCloudflareAvailability(outcome) ==
    IF ~endpoints.cloudflare.enabled \/ endpoints.cloudflare.url = <<>>
    THEN FALSE
    ELSE outcome \in {"ok", "notfound"}

\* checkCaddyAvailability(), given how its fetch ended
CheckCaddyAvailability(outcome) == outcome = "ok"

Probe(ep, outcome, available) ==
    [ endpoint |-> ep, outcome |-> outcome, available |-> available ]

----------------------------------------------------------------------------
(* TileConfig.selectBestEndpoint(): one action per block of the method.  A *)
(* block that awaits a probe takes the probe's outcome from FetchOutcomes. *)

\* the endpoint is returned and this.currentEndpoint is not assigned
Return_NotStored(ep) ==
    /\ currentEndpoint' = currentEndpoint
    /\ selResult' = ep
    /\ selPc' = "returned"

Return(ep) ==
    /\ currentEndpoint' = ep
    /\ selResult' = ep
    /\ selPc' = "returned"

Goto(label) ==
    /\ selPc' = label
    /\ UNCHANGED <<currentEndpoint, selResult>>

\* the probe's answer is not tested
ProbeCloudflareThen_Unchecked(next) ==
    \E o \in FetchOutcomes :
        /\ probes' = Append(probes, Probe("cloudflare", o, CheckCloudflareAvailability(o)))
        /\ Return("cloudflare")

\* await checkCloudflareAvailability(); select 'cloudflare' or go on at `next`
ProbeCloudflareThen(next) ==
    \E o \in FetchOutcomes :
        LET available == CheckCloudflareAvailability(o) IN
        /\ probes' = Append(probes, Probe("cloudflare", o, available))
        /\ IF available THEN Return("cloudflare") ELSE Goto(next)

\* await checkCaddyAvailability(); select 'caddy' or go on at `next`
ProbeCaddyThen(next) ==
    \E o \in FetchOutcomes :
        LET available == CheckCaddyAvailability(o) IN
        /\ probes' = Append(probes, Probe("caddy", o, available))
        /\ IF available THEN Return("caddy") ELSE Goto(next)

\* await checkCaddyAvailability(); select 'caddy' or else 'local'
ProbeCaddyElseLocal ==
    \E o \in FetchOutcomes :
        LET available == CheckCaddyAvailability(o) IN
        /\ probes' = Append(probes, Probe("caddy", o, available))
        /\ IF available THEN Return("caddy") ELSE Return("local")

\* the block tests only that a worker URL is configured, not the source mode
SelectExplicitCloudflare_AnyMode ==
    /\ selPc = "explicit_cloudflare"
    /\ IF endpoints.cloudflare.enabled
       THEN ProbeCloudflareThen("explicit_caddy")
       ELSE Goto("explicit_caddy") /\ UNCHANGED probes
    /\ UNCHANGED <<configVars, initVars, notTileConfig>>

SelectExplicitCloudflare ==
    /\ selPc = "explicit_cloudflare"
    /\ IF pmtilesSource = "cloudflare" /\ endpoints.cloudflare.enabled
       THEN ProbeCloudflareThen("explicit_caddy")
       ELSE Goto("explicit_caddy") /\ UNCHANGED probes
    /\ UNCHANGED <<configVars, initVars, notTileConfig>>

SelectExplicitCaddy ==
    /\ selPc = "explicit_caddy"
    /\ IF pmtilesSource = "caddy"
       THEN ProbeCaddyThen("explicit_local")
       ELSE Goto("explicit_local") /\ UNCHANGED probes
    /\ UNCHANGED <<configVars, initVars, notTileConfig>>

SelectExplicitLocal ==
    /\ selPc = "explicit_local"
    /\ IF pmtilesSource = "local"
       THEN Return("local")
       ELSE Goto("auto_cloudflare")
    /\ UNCHANGED <<configVars, probes, initVars, notTileConfig>>

SelectAutoCloudflare ==
    /\ selPc = "auto_cloudflare"
    /\ IF ~isLocalhost /\ endpoints.cloudflare.enabled
       THEN ProbeCloudflareThen("auto_localhost")
       ELSE Goto("auto_localhost") /\ UNCHANGED probes
    /\ UNCHANGED <<configVars, initVars, notTileConfig>>

SelectAutoLocalhost ==
    /\ selPc = "auto_localhost"
    /\ IF isLocalhost
       THEN ProbeCaddyElseLocal
       ELSE Goto("auto_pages") /\ UNCHANGED probes
    /\ UNCHANGED <<configVars, initVars, notTileConfig>>

SelectAutoPages ==
    /\ selPc = "auto_pages"
    /\ IF isGitHubPages \/ isCloudflarePages
       THEN ProbeCaddyElseLocal
       ELSE Goto("default_local") /\ UNCHANGED probes
    /\ UNCHANGED <<configVars, initVars, notTileConfig>>

SelectDefaultLocal ==
    /\ selPc = "default_local"
    /\ Return("local")
    /\ UNCHANGED <<configVars, probes, initVars, notTileConfig>>

----------------------------------------------------------------------------
(* TileConfig: URL builders *)

\* s.replace('.pmtiles', ''): the first occurrence is removed, wherever it is
RECURSIVE ReplaceFirstPmtiles(_)
ReplaceFirstPmtiles(s) ==
    IF s = <<>> THEN <<>>
    ELSE IF Head(s) = ".pmtiles" THEN Tail(s)
    ELSE <<Head(s)>> \o ReplaceFirstPmtiles(Tail(s))

GetPMTilesUrl(name) ==
    IF currentEndpoint = Null THEN ErrNotSelected
    ELSE IF currentEndpoint = "cloudflare"
    THEN Str(endpoints.cloudflare.url) \o <<"/">> \o ReplaceFirstPmtiles(name)
    ELSE LET endpoint == IF currentEndpoint = "caddy"
                         THEN endpoints.caddy.pmtiles
                         ELSE endpoints.local.pmtiles
         IN  <<"pmtiles://">> \o Str(endpoint) \o <<"/">> \o name

GetPMTilesBaseUrl(name) ==
    IF currentEndpoint = Null THEN ErrNotSelected
    ELSE IF currentEndpoint = "cloudflare"
    THEN Str(endpoints.cloudflare.url) \o <<"/">> \o ReplaceFirstPmtiles(name)
    ELSE LET endpoint == IF currentEndpoint = "caddy"
                         THEN endpoints.caddy.pmtiles
                         ELSE endpoints.local.pmtiles
         IN  Str(endpoint) \o <<"/">> \o name

----------------------------------------------------------------------------
(* OvertureMap.init() *)

NoCall == [ fn |-> "none", endpoint |-> Null, threw |-> FALSE ]

BuildingsFile == <<"buildings", ".pmtiles">>

\* what init() does at a step, with the endpoint state it sees there
Step(name) ==
    [ step |-> name, endpoint |-> currentEndpoint, resolved |-> selPc = "returned" ]

\* the constructor calls init(): the protocol is registered and
\* selectBestEndpoint() is called
InitBegin ==
    /\ initPc = "new"
    /\ selPc = "idle"
    /\ selPc' = "explicit_cloudflare"
    /\ initPc' = "await_select"
    /\ UNCHANGED <<configVars, currentEndpoint, probes, selResult, initLog,
                   lastCall, notTileConfig>>

\* selectBestEndpoint() is called and not awaited
SelectAwaited_Missing == TRUE

\* `await tileConfig.selectBestEndpoint()` has resolved
SelectAwaited == selPc = "returned"

\* loadTileMetadata(): the tilejson fetch; every failure is caught inside
InitLoadTileMetadata ==
    /\ initPc = "await_select"
    /\ SelectAwaited
    /\ initLog' = initLog \cup {Step("metadata")}
    /\ initPc' = "load_style"
    /\ UNCHANGED <<configVars, currentEndpoint, selectVars, lastCall, notTileConfig>>

\* loadStyle(): when the template is fetched its source URLs are rewritten
\* with getPMTilesUrl; when it is not, the basic style is returned
InitLoadStyle ==
    /\ initPc = "load_style"
    /\ \E o \in FetchOutcomes :
         initLog' = IF o = "ok" THEN initLog \cup {Step("rewrite")} ELSE initLog
    /\ initPc' = "create_map"
    /\ UNCHANGED <<configVars, currentEndpoint, selectVars, lastCall, notTileConfig>>

InitCreateMap ==
    /\ initPc = "create_map"
    /\ initLog' = initLog \cup {Step("createMap")}
    /\ initPc' = "done"
    /\ UNCHANGED <<configVars, currentEndpoint, selectVars, lastCall, notTileConfig>>

\* any code holding the exported tileConfig calls a URL builder
CallGetPMTilesUrl ==
    /\ lastCall' = [ fn |-> "getPMTilesUrl", endpoint |-> currentEndpoint,
                     threw |-> GetPMTilesUrl(BuildingsFile) = ErrNotSelected ]
    /\ lastCall' # lastCall
    /\ UNCHANGED <<configVars, currentEndpoint, selectVars, initPc, initLog, notTileConfig>>

CallGetPMTilesBaseUrl ==
    /\ lastCall' = [ fn |-> "getPMTilesBaseUrl", endpoint |-> currentEndpoint,
                     threw |-> GetPMTilesBaseUrl(BuildingsFile) = ErrNotSelected ]
    /\ lastCall' # lastCall
    /\ UNCHANGED <<configVars, currentEndpoint, selectVars, initPc, initLog, notTileConfig>>

----------------------------------------------------------------------------
(* The viewer from construction to map creation *)

UrlIdle ==
    /\ tileName = <<>>
    /\ urlOut = NotYet
    /\ baseUrlOut = NotYet

\* this.layerDrawOrder as the constructor sets it: <<layer id, draw order>>
InitialLayerDrawOrder ==
    << <<"background", 1>>, <<"tile-grid", 999>>, <<"land", 2>>, <<"land-cover", 20>>,
       <<"esri-admin0-forest", 21>>, <<"esri-admin1-forest", 22>>,
       <<"esri-openspace-forest", 23>>, <<"settlement-extents-fill", 26>>,
       <<"settlement-extents-outlines", 31>>, <<"land-use", 30>>,
       <<"land-residential", 15>>, <<"hills", 35>>, <<"water-lines-casing", 38>>,
       <<"land-cover-wetlands-fill", 37>>, <<"land-cover-wetlands-pattern", 37>>,
       <<"water-lines", 39>>, <<"water-polygons", 40>>, <<"water-texture", 49>>,
       <<"water-polygon-outlines", 41>>, <<"contours", 32>>, <<"contour-text", 51>>,
       <<"roads-solid", 60>>, <<"roads-dashed", 61>>, <<"roads-solid-casing", 59>>,
       <<"infrastructure-polygons", 70>>, <<"infrastructure-lines", 71>>,
       <<"infrastructure-points", 72>>, <<"buildings-flat", 80>>,
       <<"buildings-extrusion", 79>>, <<"building-outlines", 83>>,
       <<"health-areas", 84>>, <<"health-zones", 86>>, <<"health-zones-outline", 85>>,
       <<"health-zones-casing", 83>>, <<"health-areas-outline", 87>>,
       <<"health-areas-casing", 84>>, <<"places", 90>>, <<"health-facilities", 91>>,
       <<"health-areas-labels", 98>>, <<"health-zones-labels", 99>>,
       <<"place-labels", 100>>, <<"health-facilities-labels", 101>>,
       <<"settlement-names", 102>>, <<"placenames", 103>> >>

NoOrderCall == [ op |-> "none", id |-> "", order |-> 0, count |-> 0, misused |-> FALSE ]

OrderIdle ==
    /\ layerDrawOrder = InitialLayerDrawOrder
    /\ sortArg = <<>>
    /\ mapExists = FALSE
    /\ mapLayers = <<>>
    /\ lastOrderCall = NoOrderCall

NoStyle == [ sources |-> <<>>, layers |-> <<>> ]

StyleIdle ==
    /\ style = NoStyle
    /\ stylePc = "idle"
    /\ filterArg = NoStyle
    /\ filterRet = NoStyle
    /\ filterProbes = {}
    /\ styleTemplate = NoStyle
    /\ styleOrigin = "none"

\* no layout property set, no applyLabelPriorities() call made
NoProps == [ id \in {} |-> 0 ]
NoLabelCall == [ done |-> FALSE, applied |-> 0 ]

LabelIdle ==
    /\ layerTypes = NoProps
    /\ sortKeys = NoProps
    /\ labelCall = NoLabelCall

\* the constructor: this.protocol = null, nothing registered
LifeIdle ==
    /\ protocolSet = FALSE
    /\ registered = {}
    /\ mapRemoved = FALSE
    /\ destroyRet = "none"

\* the pmtiles app not loaded
EnvKeys == {"VITE_CLOUDFLARE_WORKER_URL", "VITE_PROTOMAPS_ARCHIVE",
            "VITE_OVERTURE_ARCHIVE", "VITE_GRID3_ARCHIVE"}
NoEnv        == [ key \in EnvKeys |-> <<"#notread">> ]
NoAppConfig  == [ cloudflareWorkerUrl |-> <<>>, sources |-> <<>> ]
NoTsCall     == [ name |-> "", kind |-> "none" ]
NoValidation == [ called |-> FALSE, valid |-> FALSE, errors |-> <<>> ]
NoLogOut     == [ ret |-> <<"#none">>, warnings |-> <<>> ]
NoMount      == [ pc |-> "idle", container |-> FALSE ]

AppIdle ==
    /\ env = NoEnv
    /\ appConfig = NoAppConfig
    /\ tsCall = NoTsCall
    /\ validation = NoValidation
    /\ logOut = NoLogOut
    /\ mount = NoMount

\* no feature looked at
NoOsmOut == [ id |-> <<>>, type |-> "", display |-> <<>> ]
OsmIdle ==
    /\ osmIn = [ t |-> 0, n |-> <<>>, raw |-> <<>> ]
    /\ osmOut = NoOsmOut

\* `new OvertureMap(id)` with no options: the defaults, and no metadata
Absent == -1                    \* an option or a metadata field that is not given
DefaultOptions ==
    [ minZoom |-> 6, maxZoom |-> 22, bounds |-> <<>>, center |-> <<>>,
      useVectorTiles |-> FALSE ]
NoMetadata == [ state |-> "null", url |-> <<>> ]
MetaIdle ==
    /\ callerOptions = [ minZoom |-> Absent, maxZoom |-> Absent ]
    /\ options = DefaultOptions
    /\ tileMetadata = NoMetadata

\* no script started
NoUpload ==
    [ pc |-> "idle", bucketArg |-> <<>>, installed |-> FALSE, dirExists |-> FALSE,
      fileCount |-> 0, index |-> 0, uploadCount |-> 0, puts |-> <<>>, out |-> <<>>,
      exit |-> -1 ]
NoTerrain == [ pc |-> "idle", download |-> -1, extractRun |-> FALSE, exit |-> -1 ]
ScriptsIdle ==
    /\ upload = NoUpload
    /\ terrain = NoTerrain

\* a script not started, a viewer not mounted
NotRun == [ pc |-> "idle" ]
OpsIdle ==
    /\ merge = NotRun
    /\ manage = NotRun
    /\ sprites = NotRun
    /\ deploy = NotRun
ViewIdle ==
    /\ press = NotRun
    /\ reactive = NotRun
    /\ errorView = NotRun
RestIdle ==
    /\ OpsIdle
    /\ ViewIdle
MobileIdle == mobile = NotRun

LaterIdle ==
    /\ RestIdle
    /\ AppIdle
    /\ OsmIdle
    /\ ScriptsIdle

OthersIdle ==
    /\ LabelIdle
    /\ LifeIdle
    /\ MetaIdle
    /\ MobileIdle
    /\ LaterIdle

\* the legacy viewer's page not opened
LegacyIdle ==
    /\ ConstructedConfig("auto", <<"localhost">>, <<"", "">>, <<>>)
    /\ currentEndpoint = Null
    /\ selPc = "idle"
    /\ probes = <<>>
    /\ selResult = Null
    /\ initPc = "new"
    /\ initLog = {}
    /\ lastCall = NoCall
    /\ UrlIdle
    /\ StyleIdle
    /\ OrderIdle
    /\ LabelIdle
    /\ LifeIdle
    /\ MetaIdle
    /\ MobileIdle

Init ==
    /\ \E mode \in SourceModes, h \in Hostnames, p \in Pathnames, w \in WorkerUrls :
           ConstructedConfig(mode, h, p, w)
    /\ currentEndpoint = Null
    /\ selPc = "idle"
    /\ probes = <<>>
    /\ selResult = Null
    /\ initPc = "new"
    /\ initLog = {}
    /\ lastCall = NoCall
    /\ UrlIdle
    /\ OthersIdle
    /\ StyleIdle
    /\ OrderIdle

Next ==
    \/ InitBegin
    \/ SelectExplicitCloudflare
    \/ SelectExplicitCaddy
    \/ SelectExplicitLocal
    \/ SelectAutoCloudflare
    \/ SelectAutoLocalhost
    \/ SelectAutoPages
    \/ SelectDefaultLocal
    \/ InitLoadTileMetadata
    \/ InitLoadStyle
    \/ InitCreateMap
    \/ CallGetPMTilesUrl
    \/ CallGetPMTilesBaseUrl

Spec == Init /\ [][Next]_vars

----------------------------------------------------------------------------
(* Properties of endpoint selection and of init() *)

ProbeIdx == 1..Len(probes)

Probed(ep)    == \E i \in ProbeIdx : probes[i].endpoint = ep
Reachable(ep) == \E i \in ProbeIdx : probes[i].endpoint = ep /\ probes[i].available
Failed(ep)    == \E i \in ProbeIdx : probes[i].endpoint = ep /\ ~probes[i].available

OnPagesHost == isGitHubPages \/ isCloudflarePages

SelectStepEnabled ==
    \/ ENABLED SelectExplicitCloudflare
    \/ ENABLED SelectExplicitCaddy
    \/ ENABLED SelectExplicitLocal
    \/ ENABLED SelectAutoCloudflare
    \/ ENABLED SelectAutoLocalhost
    \/ ENABLED SelectAutoPages
    \/ ENABLED SelectDefaultLocal

\* C1: in mode 'auto' off localhost, a call whose edge-worker probe failed
\* resolves with 'caddy' when the page is on a static-pages host and the caddy
\* probe succeeded, and with 'local' otherwise (so never with 'cloudflare');
\* in mode 'local' the call resolves with 'local' and sends no probe at all.
C1_AutoFallbackAndLocal ==
    selPc = "returned" =>
        /\ (pmtilesSource = "auto" /\ ~isLocalhost /\ Failed("cloudflare")) =>
               selResult = IF OnPagesHost /\ Reachable("caddy")
                           THEN "caddy" ELSE "local"
        /\ pmtilesSource = "local" => (selResult = "local" /\ probes = <<>>)

C1_Witness ==
    /\ selPc = "returned"
    /\ pmtilesSource = "auto"
    /\ ~isLocalhost
    /\ Failed("cloudflare")
    /\ probes[1].outcome = "aborted"
    /\ selResult = "caddy"

\* C2: the call always goes on until it resolves; it resolves with one of the
\* three endpoint names, which is then the value of currentEndpoint (null until
\* then); 'cloudflare' and 'caddy' are selected only after a probe of that
\* endpoint in this call reported it reachable, 'cloudflare' only with a
\* worker URL configured.
C2_ResolvesToOneEndpoint ==
    /\ selPc \notin {"idle", "returned"} => SelectStepEnabled
    /\ selPc # "returned" => (currentEndpoint = Null /\ selResult = Null)
    /\ selPc = "returned" =>
        /\ selResult \in {"cloudflare", "caddy", "local"}
        /\ currentEndpoint = selResult
        /\ selResult \in {"cloudflare", "caddy"} => Reachable(selResult)
        /\ selResult = "cloudflare" => endpoints.cloudflare.enabled

C2_Witness ==
    /\ selPc = "returned"
    /\ selResult = "cloudflare"
    /\ currentEndpoint = "cloudflare"
    /\ Failed("caddy")

\* C3 as stated: with the source mode naming 'cloudflare' or 'caddy', every
\* probe of the call goes to the named endpoint.
C3_OnlyNamedEndpointProbed ==
    pmtilesSource \in {"cloudflare", "caddy"} =>
        \A i \in ProbeIdx : probes[i].endpoint = pmtilesSource

\* C3 amended: with the source mode naming 'cloudflare' or 'caddy', a probe is
\* sent to the other remote endpoint only after a probe of the named endpoint
\* has failed in this call, or, for 'cloudflare', when no worker URL is
\* configured (the worker is then not probed at all).
C3_OtherProbedOnlyAfterNamedFailed ==
    pmtilesSource \in {"cloudflare", "caddy"} =>
        IF pmtilesSource = "cloudflare" /\ ~endpoints.cloudflare.enabled
        THEN ~Probed("cloudflare")
        ELSE \A i \in ProbeIdx :
                 probes[i].endpoint # pmtilesSource =>
                     \E j \in 1..(i-1) : /\ probes[j].endpoint = pmtilesSource
                                         /\ ~probes[j].available

C3_Witness ==
    /\ pmtilesSource = "caddy"
    /\ Len(probes) >= 2
    /\ probes[1].endpoint = "caddy" /\ ~probes[1].available
    /\ probes[2].endpoint = "cloudflare"

\* C4 as stated: no endpoint is probed more than once in a call.
C4_NoEndpointProbedTwice ==
    \A i, j \in ProbeIdx : i < j => probes[i].endpoint # probes[j].endpoint

\* C5: every step of init() that uses the endpoint (the metadata fetch, the
\* rewriting of the source URLs, the creation of the map) runs with
\* selectBestEndpoint() resolved and currentEndpoint set, and a direct call of
\* getPMTilesUrl or getPMTilesBaseUrl made while currentEndpoint is null raises.
C5_NoUrlBeforeSelection ==
    /\ \A e \in initLog : e.resolved /\ e.endpoint # Null
    /\ (lastCall.fn # "none" /\ lastCall.endpoint = Null) => lastCall.threw

C5_Witness ==
    /\ initPc = "done"
    /\ \A n \in {"metadata", "rewrite", "createMap"} : \E e \in initLog : e.step = n
    /\ lastCall.fn = "getPMTilesUrl"
    /\ lastCall.threw

----------------------------------------------------------------------------
(* The URL builders called on an archive name, after endpoint selection *)

MaxNameLen == 3

NameTokens == {"buildings", ".pmtiles", ".v2"}

RECURSIVE SeqsUpTo(_, _)
SeqsUpTo(S, n) ==
    IF n = 0 THEN { <<>> }
    ELSE LET shorter == SeqsUpTo(S, n - 1)
         IN  shorter \cup { Append(q, x) : q \in { r \in shorter : Len(r) = n - 1 }, x \in S }

TileNames == SeqsUpTo(NameTokens, MaxNameLen) \ { <<>> }

\* the state selectBestEndpoint() leaves when the source mode names the
\* endpoint `ep` and, for a remote endpoint, its first probe succeeds
SelectedState(ep) ==
    /\ pmtilesSource = ep
    /\ currentEndpoint = ep
    /\ selResult = ep
    /\ selPc = "returned"
    /\ probes = IF ep = "local" THEN <<>> ELSE <<Probe(ep, "ok", TRUE)>>
    /\ ep = "cloudflare" => endpoints.cloudflare.enabled

InitUrl ==
    /\ \E mode \in SourceModes \ {"auto"}, h \in Hostnames, p \in Pathnames,
          w \in WorkerUrls :
           /\ ConstructedConfig(mode, h, p, w)
           /\ SelectedState(mode)
    /\ initPc = "await_select"
    /\ initLog = {}
    /\ lastCall = NoCall
    /\ tileName \in TileNames
    /\ urlOut = NotYet
    /\ baseUrlOut = NotYet
    /\ OthersIdle
    /\ StyleIdle
    /\ OrderIdle

ApplyGetPMTilesUrl ==
    /\ urlOut = NotYet
    /\ urlOut' = GetPMTilesUrl(tileName)
    /\ UNCHANGED <<configVars, currentEndpoint, selectVars, initVars, tileName, baseUrlOut, notUrl>>

ApplyGetPMTilesBaseUrl ==
    /\ baseUrlOut = NotYet
    /\ baseUrlOut' = GetPMTilesBaseUrl(tileName)
    /\ UNCHANGED <<configVars, currentEndpoint, selectVars, initVars, tileName, urlOut, notUrl>>

NextUrl ==
    \/ ApplyGetPMTilesUrl
    \/ ApplyGetPMTilesBaseUrl

SpecUrl == InitUrl /\ [][NextUrl]_vars

\* the archive name without a trailing .pmtiles
StripExtension(s) ==
    IF s # <<>> /\ s[Len(s)] = ".pmtiles" THEN SubSeq(s, 1, Len(s) - 1) ELSE s

\* C6 as stated: with the edge worker selected getPMTilesUrl(file) is the
\* worker URL, '/', and the file without its .pmtiles extension; with caddy or
\* local selected it is 'pmtiles://', the endpoint's base path, '/', the file.
C6_UrlShape ==
    urlOut # NotYet =>
        urlOut = IF currentEndpoint = "cloudflare"
                 THEN endpoints.cloudflare.url \o <<"/">> \o StripExtension(tileName)
                 ELSE <<"pmtiles://">>
                      \o Str(IF currentEndpoint = "caddy"
                             THEN endpoints.caddy.pmtiles
                             ELSE endpoints.local.pmtiles)
                      \o <<"/">> \o tileName

----------------------------------------------------------------------------
(* OvertureMap: styles.  A style is its sources (by id) and its layers (in  *)
(* order); a field the JSON leaves out holds the empty value.               *)

NoUrl    == <<>>        \* source.url undefined
NoTiles  == <<>>        \* source.tiles undefined
NoSource == ""          \* layer.source undefined

Source(type, url, tiles) ==
    [ type |-> type, url |-> url, tiles |-> tiles,
      attribution |-> <<>>, maxzoom |-> 0, optional |-> FALSE ]

Layer(id, source) == [ id |-> id, source |-> source ]

Restrict(f, S) == [ x \in S |-> f[x] ]

SourceIds == {"s1", "s2", "s3"}

\* the archive a template source names
ArchiveFile(id) ==
    CASE id = "s1" -> <<"base", ".pmtiles">>
      [] id = "s2" -> <<"buildings", ".pmtiles">>
      [] OTHER     -> <<"roads", ".pmtiles">>

\* 'pmtiles://tiles/<file>', as the style template declares an archive
TemplateArchiveUrl(id) == <<"pmtiles://", "tiles/">> \o ArchiveFile(id)

\* tokens that end in '/'
SlashTokens == {"/", "pmtiles://", "tiles/", "http://", "https://"}

\* url.split('/').pop()
RECURSIVE LastSegment(_)
LastSegment(s) ==
    IF s = <<>> THEN <<>>
    ELSE IF \E i \in 2..Len(s) : s[i] \in SlashTokens THEN LastSegment(Tail(s))
    ELSE IF Head(s) \in SlashTokens THEN Tail(s)
    ELSE s

\* source.url && source.url.includes('pmtiles://')
IsPmtilesSource(source) ==
    source.url # NoUrl /\ Includes(source.url, "pmtiles://")

\* tileConfig.isUsingCloudflare()
IsUsingCloudflare == currentEndpoint = "cloudflare"

\* getCheckUrl(fileName) of filterAvailableSources
GetCheckUrl(fileName) ==
    IF IsUsingCloudflare
    THEN Str(endpoints.cloudflare.url) \o <<"/">>
         \o ReplaceFirstPmtiles(fileName) \o <<".json">>
    ELSE Str(IF currentEndpoint = "caddy"
             THEN endpoints.caddy.pmtiles
             ELSE endpoints.local.pmtiles) \o <<"/">> \o fileName

\* the request method checkPMTilesExists(url) uses
CheckMethod == IF IsUsingCloudflare THEN "GET" ELSE "HEAD"

\* checkPMTilesExists(url), given how its fetch ended
CheckPMTilesExists(outcome) == outcome = "ok"

\* how the fetch of an archive check can end
CheckOutcomes == {"ok", "notfound", "aborted"}

\* the sources filterAvailableSources() probes
PmtilesSourcesOf(st) ==
    { id \in DOMAIN st.sources : IsPmtilesSource(st.sources[id]) }

\* availableSources, given the fetch outcome of every probe
AvailableSources(st, outcome) ==
    (DOMAIN st.sources \ PmtilesSourcesOf(st))
    \cup { id \in PmtilesSourcesOf(st) : CheckPMTilesExists(outcome[id]) }

\* every layer is kept, whatever its source
FilterLayers_KeepAll(layers, available) == layers

\* style.layers.filter(...)
FilterLayers(layers, available) ==
    SelectSeq(layers,
              LAMBDA l : ~(l.source # NoSource /\ l.source \notin available))

\* the style filterAvailableSources(st) returns
FilteredStyle(st, outcome) ==
    [ st EXCEPT !.sources = Restrict(st.sources, AvailableSources(st, outcome)),
                !.layers  = FilterLayers(st.layers, AvailableSources(st, outcome)) ]

\* the checkPMTilesExists() calls filterAvailableSources(st) makes
FilterProbes(st, outcome) ==
    { [ sourceId |-> id,
        method   |-> CheckMethod,
        url      |-> GetCheckUrl(LastSegment(st.sources[id].url)),
        exists   |-> CheckPMTilesExists(outcome[id]) ] : id \in PmtilesSourcesOf(st) }

----------------------------------------------------------------------------
(* filterAvailableSources(style) called on a style, after endpoint selection *)

MaxFilterLayers == 2

\* a source as filterAvailableSources() can meet it: an archive the template
\* declares, an archive at an absolute URL, a TileJSON URL, or tiles only
FilterSourceKinds(id) ==
    { Source("vector", TemplateArchiveUrl(id), NoTiles),
      Source("raster-dem",
             <<"pmtiles://", "https://", "cdn.example", "/">> \o ArchiveFile(id), NoTiles),
      Source("vector", <<"https://", "esri.example", "/", "tiles.json">>, NoTiles),
      Source("raster", NoUrl, << <<"https://", "esri.example", "/", "{z}/{x}/{y}">> >>) }

LayerSources == SourceIds \cup {NoSource, "ghost"}

\* layers 'layer-1', 'layer-2', ... with the sources given
LayersWith(srcs) ==
    [ i \in 1..Len(srcs) |-> Layer("layer-" \o ToString(i), srcs[i]) ]

FilterStyles ==
    { [ sources |-> ss, layers |-> LayersWith(srcs) ] :
        ss \in { f \in [SourceIds -> UNION { FilterSourceKinds(id) : id \in SourceIds }] :
                   \A id \in SourceIds : f[id] \in FilterSourceKinds(id) },
        srcs \in SeqsUpTo(LayerSources, MaxFilterLayers) }

\* the endpoints a page on localhost with a worker URL can have selected
SelectedOnLocalhost ==
    \E mode \in SourceModes \ {"auto"} :
        /\ ConstructedConfig(mode, <<"localhost">>, <<"", "">>,
                             <<"https://x.example/worker">>)
        /\ SelectedState(mode)

InitFilter ==
    /\ SelectedOnLocalhost
    /\ initPc = "load_style"
    /\ initLog = {}
    /\ lastCall = NoCall
    /\ UrlIdle
    /\ OthersIdle
    /\ style \in FilterStyles
    /\ stylePc = "call_filter"
    /\ filterArg = NoStyle
    /\ filterRet = NoStyle
    /\ filterProbes = {}
    /\ styleTemplate = NoStyle
    /\ styleOrigin = "none"
    /\ OrderIdle

CallFilterAvailableSources ==
    /\ stylePc = "call_filter"
    /\ \E outcome \in [PmtilesSourcesOf(style) -> CheckOutcomes] :
         /\ filterArg' = style
         /\ filterRet' = FilteredStyle(style, outcome)
         /\ filterProbes' = FilterProbes(style, outcome)
    /\ stylePc' = "filter_returned"
    /\ UNCHANGED <<tileConfigVars, urlVars, otherVars, orderVars, style, styleTemplate, styleOrigin>>

NextFilter == CallFilterAvailableSources

SpecFilter == InitFilter /\ [][NextFilter]_vars

ProbeFailed(id) == \E pr \in filterProbes : pr.sourceId = id /\ ~pr.exists
ProbeOk(id)     == \E pr \in filterProbes : pr.sourceId = id /\ pr.exists

\* C8: filterAvailableSources(style) probes each source whose url contains
\* pmtiles:// exactly once and no other source; the result keeps, unchanged,
\* exactly the sources that are not pmtiles:// sources or whose probe
\* succeeded, and keeps, unchanged and in their order, exactly the layers with
\* no source or with a kept source; nothing else of the style changes.
C8_FilterKeepsExactlyAvailable ==
    stylePc = "filter_returned" =>
        LET pm   == { id \in DOMAIN filterArg.sources :
                        Includes(filterArg.sources[id].url, "pmtiles://") }
            kept == { id \in DOMAIN filterArg.sources : id \notin pm \/ ProbeOk(id) }
        IN  /\ { pr.sourceId : pr \in filterProbes } = pm
            /\ Cardinality(filterProbes) = Cardinality(pm)
            /\ DOMAIN filterRet.sources = kept
            /\ \A id \in kept : filterRet.sources[id] = filterArg.sources[id]
            /\ filterRet.layers =
                 SelectSeq(filterArg.layers,
                           LAMBDA l : l.source = NoSource \/ l.source \in kept)
            /\ style = filterArg

\* three archive sources, exactly one unreachable: it goes with the layer
\* that references it, the other layer stays
C8_Witness ==
    /\ stylePc = "filter_returned"
    /\ \A id \in SourceIds : IsPmtilesSource(filterArg.sources[id])
    /\ ProbeFailed("s2") /\ ProbeOk("s1") /\ ProbeOk("s3")
    /\ DOMAIN filterRet.sources = {"s1", "s3"}
    /\ filterArg.layers = LayersWith(<<"s2", "s3">>)
    /\ filterRet.layers = << Layer("layer-2", "s3") >>

----------------------------------------------------------------------------
(* OvertureMap.sortLayersByDrawOrder(style) *)

DefaultDrawOrder == 999

HasDrawOrder(table, id) == \E i \in 1..Len(table) : table[i][1] = id

\* table[id], for an id the table holds
DrawOrderIn(table, id) ==
    table[CHOOSE i \in 1..Len(table) : table[i][1] = id][2]

\* a layer without an entry sorts first
DrawOrderOf_DefaultZero(table, id) ==
    IF HasDrawOrder(table, id) THEN DrawOrderIn(table, id) ELSE 0

\* this.layerDrawOrder[id] !== undefined ? this.layerDrawOrder[id] : 999
DrawOrderOf(table, id) ==
    IF HasDrawOrder(table, id) THEN DrawOrderIn(table, id) ELSE DefaultDrawOrder

\* the comparator: orderA - orderB
CompareLayers(table, a, b) == DrawOrderOf(table, a.id) - DrawOrderOf(table, b.id)

\* x put after the elements of the sorted list that do not compare greater
RECURSIVE InsertLayer(_, _, _)
InsertLayer(table, sorted, x) ==
    IF sorted = <<>> THEN <<x>>
    ELSE IF CompareLayers(table, Head(sorted), x) <= 0
    THEN <<Head(sorted)>> \o InsertLayer(table, Tail(sorted), x)
    ELSE <<x>> \o sorted

\* Array.prototype.sort with the comparator: a stable sort
RECURSIVE SortLayers(_, _)
SortLayers(table, layers) ==
    IF layers = <<>> THEN <<>>
    ELSE InsertLayer(table, SortLayers(table, SubSeq(layers, 1, Len(layers) - 1)),
                     layers[Len(layers)])

MaxSortLayers == 3

\* layers with one draw order each, two with the same one, one with an
\* explicit 999 and two the table does not hold
SortLayerIds ==
    { "background", "water-lines", "land-cover-wetlands-fill",
      "land-cover-wetlands-pattern", "tile-grid", "poi-custom", "debug-overlay" }

SortStyles ==
    { [ sources |-> <<>>, layers |-> [ i \in 1..Len(ids) |-> Layer(ids[i], NoSource) ] ] :
        ids \in { q \in SeqsUpTo(SortLayerIds, MaxSortLayers) :
                    \A i, j \in 1..Len(q) : i # j => q[i] # q[j] } }

InitSort ==
    /\ SelectedOnLocalhost
    /\ initPc = "load_style"
    /\ initLog = {}
    /\ lastCall = NoCall
    /\ UrlIdle
    /\ OthersIdle
    /\ style \in SortStyles
    /\ stylePc = "call_sort"
    /\ filterArg = NoStyle
    /\ filterRet = NoStyle
    /\ filterProbes = {}
    /\ styleTemplate = NoStyle
    /\ styleOrigin = "none"
    /\ OrderIdle

\* sortLayersByDrawOrder(style) sorts style.layers in place (every style here
\* has a layers array, so the early return is not taken)
CallSortLayersByDrawOrder ==
    /\ stylePc = "call_sort"
    /\ sortArg' = style.layers
    /\ style' = [ style EXCEPT !.layers = SortLayers(layerDrawOrder, style.layers) ]
    /\ stylePc' = "sort_returned"
    /\ UNCHANGED <<tileConfigVars, urlVars, otherVars, filterArg, filterRet, filterProbes,
                   styleTemplate, styleOrigin, layerDrawOrder, mapExists, mapLayers,
                   lastOrderCall>>

NextSort == CallSortLayersByDrawOrder

SpecSort == InitSort /\ [][NextSort]_vars

\* the draw order the documentation gives a layer: its table entry, or 999
DocumentedOrder(id) ==
    IF \E e \in { InitialLayerDrawOrder[i] : i \in 1..Len(InitialLayerDrawOrder) } : e[1] = id
    THEN (CHOOSE e \in { InitialLayerDrawOrder[i] : i \in 1..Len(InitialLayerDrawOrder) } :
              e[1] = id)[2]
    ELSE 999

----------------------------------------------------------------------------
(* OvertureMap.loadStyle() in archive-protocol mode (useVectorTiles false) *)

\* source.url.startsWith('pmtiles://tiles/')
StartsWithTemplatePrefix(url) ==
    Len(url) >= 2 /\ url[1] = "pmtiles://" /\ url[2] = "tiles/"

\* the body of the loop of updatePMTilesUrls(style), for one source
UpdateSource(source) ==
    IF source.type = "vector" /\ source.url # NoUrl /\ StartsWithTemplatePrefix(source.url)
    THEN LET tilePath == SubSeq(source.url, 3, Len(source.url))
             newUrl   == GetPMTilesUrl(tilePath)
         IN  IF IsUsingCloudflare
             THEN [ source EXCEPT
                      !.url = NoUrl,
                      !.tiles = << Str(endpoints.cloudflare.url) \o <<"/">>
                                   \o ReplaceFirstPmtiles(tilePath)
                                   \o <<"/{z}/{x}/{y}.pbf">> >>,
                      !.attribution = IF @ = <<>>
                                      THEN <<"(c) Overture Maps Foundation">> ELSE @,
                      !.maxzoom = IF @ = 0 THEN 22 ELSE @,
                      !.optional = TRUE ]
             ELSE [ source EXCEPT
                      !.url = newUrl,
                      !.maxzoom = IF @ = 0 THEN 22 ELSE @,
                      !.optional = TRUE ]
    ELSE source

\* getBasicStyle()
BasicStyle == [ sources |-> <<>>, layers |-> << Layer("background", NoSource) >> ]

ExtendFn(f, k, v) == [ x \in DOMAIN f \cup {k} |-> IF x = k THEN v ELSE f[x] ]

\* what addContourToStyle(style) leaves in style
WithContours(st) ==
    [ sources |->
        ExtendFn(ExtendFn(st.sources, "dem",
                          [ Source("raster-dem", NoUrl, << <<"dem-shared://">> >>)
                              EXCEPT !.maxzoom = 16 ]),
                 "contours",
                 [ Source("vector", NoUrl, << <<"dem-contour://">> >>)
                     EXCEPT !.maxzoom = 16 ]),
      layers |-> st.layers \o << Layer("hills", "dem"), Layer("contours", "contours"),
                                 Layer("contour-text", "contours") >> ]

MaxTemplateLayers == 2

TemplateLayerIds == {"background", "roads-solid", "poi-custom"}

\* a source of the template: an archive declared as pmtiles://tiles/<file>, or
\* a source with tiles and no url
TemplateSourceKinds(id) ==
    { Source("vector", TemplateArchiveUrl(id), NoTiles),
      Source("raster", NoUrl, << <<"https://", "esri.example", "/", "{z}/{x}/{y}">> >>) }

TemplateStyles ==
    { [ sources |-> ss, layers |-> [ i \in 1..Len(ls) |-> Layer(ls[i][1], ls[i][2]) ] ] :
        ss \in { f \in [SourceIds -> UNION { TemplateSourceKinds(id) : id \in SourceIds }] :
                   \A id \in SourceIds : f[id] \in TemplateSourceKinds(id) },
        ls \in { q \in SeqsUpTo(TemplateLayerIds \X (SourceIds \cup {NoSource}),
                                MaxTemplateLayers) :
                   \A i, j \in 1..Len(q) : i # j => q[i][1] # q[j][1] } }

InitStyle ==
    /\ SelectedOnLocalhost
    /\ initPc = "load_style"
    /\ initLog = {}
    /\ lastCall = NoCall
    /\ UrlIdle
    /\ OthersIdle
    /\ style = NoStyle
    /\ stylePc = "fetch_style"
    /\ filterArg = NoStyle
    /\ filterRet = NoStyle
    /\ filterProbes = {}
    /\ styleTemplate \in TemplateStyles
    /\ styleOrigin = "none"
    /\ OrderIdle

styleFrame == <<tileConfigVars, urlVars, otherVars, orderVars, styleTemplate>>

\* the catch block: the basic style is returned
ReturnBasicStyle ==
    /\ style' = BasicStyle
    /\ styleOrigin' = "basic"
    /\ stylePc' = "returned"

\* fetch(styleFile): a rejected fetch throws; a response that is not ok
\* throws, or in vector-tile mode goes on to fetch the archive style
LoadStyleFetch ==
    /\ stylePc = "fetch_style"
    /\ \E o \in FetchOutcomes :
         IF o = "ok"
         THEN /\ style' = styleTemplate
              /\ styleOrigin' = "template"
              /\ stylePc' = IF options.useVectorTiles THEN "update_vector_urls"
                            ELSE "update_urls"
         ELSE IF options.useVectorTiles /\ o # "aborted"
         THEN /\ stylePc' = "fetch_fallback"
              /\ UNCHANGED <<style, styleOrigin>>
         ELSE ReturnBasicStyle
    /\ UNCHANGED <<styleFrame, filterArg, filterRet, filterProbes>>

\* this.updatePMTilesUrls(style); getPMTilesUrl throws with no endpoint selected
LoadStyleUpdateUrls ==
    /\ stylePc = "update_urls"
    /\ IF currentEndpoint = Null
          /\ \E id \in DOMAIN style.sources : UpdateSource(style.sources[id]) # style.sources[id]
       THEN ReturnBasicStyle
       ELSE /\ style' = [ style EXCEPT
                            !.sources = [ id \in DOMAIN @ |-> UpdateSource(@[id]) ] ]
            /\ stylePc' = "filter"
            /\ UNCHANGED styleOrigin
    /\ UNCHANGED <<styleFrame, filterArg, filterRet, filterProbes>>

\* Object.assign(style, await this.filterAvailableSources(style))
LoadStyleFilter ==
    /\ stylePc = "filter"
    /\ \E outcome \in [PmtilesSourcesOf(style) -> CheckOutcomes] :
         /\ filterArg' = style
         /\ filterRet' = FilteredStyle(style, outcome)
         /\ filterProbes' = FilterProbes(style, outcome)
         /\ style' = FilteredStyle(style, outcome)
    /\ stylePc' = "add_contour"
    /\ UNCHANGED <<styleFrame, styleOrigin>>

\* await this.addContourToStyle(style); the import of the contour library can fail
LoadStyleAddContour ==
    /\ stylePc = "add_contour"
    /\ \E imported \in BOOLEAN :
         IF imported
         THEN /\ style' = WithContours(style)
              /\ stylePc' = "sort"
              /\ UNCHANGED styleOrigin
         ELSE ReturnBasicStyle
    /\ UNCHANGED <<styleFrame, filterArg, filterRet, filterProbes>>

\* the last step without the sort
LoadStyleSort_Skip ==
    /\ stylePc = "sort"
    /\ style' = style
    /\ stylePc' = "returned"
    /\ UNCHANGED <<styleFrame, styleOrigin, filterArg, filterRet, filterProbes>>

\* this.sortLayersByDrawOrder(style); return style
LoadStyleSort ==
    /\ stylePc = "sort"
    /\ style' = [ style EXCEPT !.layers = SortLayers(layerDrawOrder, style.layers) ]
    /\ stylePc' = "returned"
    /\ UNCHANGED <<styleFrame, styleOrigin, filterArg, filterRet, filterProbes>>

NextStyle ==
    \/ LoadStyleFetch
    \/ LoadStyleUpdateUrls
    \/ LoadStyleFilter
    \/ LoadStyleAddContour
    \/ LoadStyleSort

SpecStyle == InitStyle /\ [][NextStyle]_vars

\* the sources the template declares as pmtiles://tiles/<file>
DeclaredArchives ==
    { id \in DOMAIN styleTemplate.sources :
        StartsWithTemplatePrefix(styleTemplate.sources[id].url) }

\* C7 as stated: in the style loadStyle() returns from a template, every
\* source the template declares as pmtiles://tiles/<file> was probed (HEAD for
\* caddy and local, GET of '<name>.json' on the worker for cloudflare), and a
\* source whose probe failed is gone with every layer referencing it.
C7_DeclaredArchivesProbed ==
    (stylePc = "returned" /\ styleOrigin = "template") =>
        \A id \in DeclaredArchives :
            /\ \E pr \in filterProbes :
                   /\ pr.sourceId = id
                   /\ pr.method = IF currentEndpoint = "cloudflare" THEN "GET" ELSE "HEAD"
                   /\ currentEndpoint = "cloudflare" =>
                          pr.url = endpoints.cloudflare.url \o <<"/">>
                                   \o StripExtension(ArchiveFile(id)) \o <<".json">>
            /\ ProbeFailed(id) =>
                   /\ id \notin DOMAIN style.sources
                   /\ \A i \in 1..Len(style.layers) : style.layers[i].source # id

----------------------------------------------------------------------------
(* OvertureMap.addLayerWithOrder / updateLayerOrder on the live map *)

MaxOrderCalls == 2

NoLayer == ""           \* beforeLayerId undefined

\* this.map.getLayer(id)
GetLayer(layers, id) == \E i \in 1..Len(layers) : layers[i] = id

\* this.layerDrawOrder[id] = n: an entry keeps its place, a new one goes last
SetDrawOrder(table, id, n) ==
    IF HasDrawOrder(table, id)
    THEN [ i \in 1..Len(table) |-> IF table[i][1] = id THEN <<id, n>> ELSE table[i] ]
    ELSE Append(table, <<id, n>>)

\* sortedLayers[0][0]: of the entries that are on the map with an order <= n,
\* the first of those with the highest order; undefined when there is none
BeforeLayerId(table, layers, n) ==
    LET cand == { i \in 1..Len(table) : GetLayer(layers, table[i][1]) /\ table[i][2] <= n }
    IN  IF cand = {} THEN NoLayer
        ELSE table[CHOOSE i \in cand :
                     \A k \in cand : \/ table[k][2] < table[i][2]
                                     \/ (table[k][2] = table[i][2] /\ i <= k)][1]

\* map.addLayer(layer, beforeId): before that layer, or on top without one;
\* an id the map already has is refused with an error event
MapAddLayer(layers, id, beforeId) ==
    IF GetLayer(layers, id) THEN layers
    ELSE IF beforeId = NoLayer THEN Append(layers, id)
    ELSE LET k == CHOOSE i \in 1..Len(layers) : layers[i] = beforeId
         IN  SubSeq(layers, 1, k - 1) \o <<id>> \o SubSeq(layers, k, Len(layers))

\* map.removeLayer(id)
MapRemoveLayer(layers, id) == SelectSeq(layers, LAMBDA x : x # id)

\* the ids the calls are made with, and the draw orders
OrderCallIds == {"roads-solid", "labels-new", "poi-custom"}
OrderValues  == {0, 39, 50, 1000}

\* the layer stack createMap() starts from: layers of a sorted style
InitialStacks ==
    { q \in SeqsUpTo({"background", "water-lines", "roads-solid", "poi-custom"}, 4) :
        \A i, j \in 1..Len(q) :
            i < j => DrawOrderOf(InitialLayerDrawOrder, q[i])
                     < DrawOrderOf(InitialLayerDrawOrder, q[j]) }

RecordCall(op, id, n, misuse) ==
    [ op |-> op, id |-> id, order |-> n, count |-> lastOrderCall.count + 1,
      misused |-> lastOrderCall.misused \/ misuse ]

AddLayerWithOrder(id, n) ==
    /\ lastOrderCall.count < MaxOrderCalls
    /\ lastOrderCall' = RecordCall("addLayerWithOrder", id, n,
                                   mapExists /\ GetLayer(mapLayers, id))
    /\ IF ~mapExists
       THEN UNCHANGED <<layerDrawOrder, mapLayers>>
       ELSE LET table == SetDrawOrder(layerDrawOrder, id, n)
            IN  /\ layerDrawOrder' = table
                /\ mapLayers' = MapAddLayer(mapLayers, id,
                                            BeforeLayerId(table, mapLayers, n))
    /\ UNCHANGED <<tileConfigVars, urlVars, otherVars, styleVars, sortArg, mapExists>>

UpdateLayerOrder(id, n) ==
    /\ lastOrderCall.count < MaxOrderCalls
    /\ lastOrderCall' = RecordCall("updateLayerOrder", id, n, FALSE)
    /\ IF ~mapExists \/ ~GetLayer(mapLayers, id)
       THEN UNCHANGED <<layerDrawOrder, mapLayers>>
       ELSE LET table   == SetDrawOrder(SetDrawOrder(layerDrawOrder, id, n), id, n)
                removed == MapRemoveLayer(mapLayers, id)
            IN  /\ layerDrawOrder' = table
                /\ mapLayers' = MapAddLayer(removed, id,
                                            BeforeLayerId(table, removed, n))
    /\ UNCHANGED <<tileConfigVars, urlVars, otherVars, styleVars, sortArg, mapExists>>

InitOrder ==
    /\ SelectedOnLocalhost
    /\ lastCall = NoCall
    /\ UrlIdle
    /\ OthersIdle
    /\ StyleIdle
    /\ layerDrawOrder = InitialLayerDrawOrder
    /\ sortArg = <<>>
    /\ \/ mapExists = FALSE /\ mapLayers = <<>> /\ initPc = "create_map" /\ initLog = {}
       \/ mapExists = TRUE /\ mapLayers \in InitialStacks /\ initPc = "done" /\ initLog = {}
    /\ lastOrderCall = NoOrderCall

NextOrder ==
    \/ \E id \in OrderCallIds, n \in OrderValues : AddLayerWithOrder(id, n)
    \/ \E id \in OrderCallIds, n \in OrderValues : UpdateLayerOrder(id, n)

SpecOrder == InitOrder /\ [][NextOrder]_vars

\* the live stack is sorted by the draw orders now in the table
StackSorted ==
    \A i, j \in 1..Len(mapLayers) :
        i < j => DrawOrderOf(layerDrawOrder, mapLayers[i])
                 <= DrawOrderOf(layerDrawOrder, mapLayers[j])

\* C10 as stated: the calls record n as the layer's draw order, and a live
\* stack that is sorted by draw order is still sorted after any sequence of
\* addLayerWithOrder calls for new layers and updateLayerOrder calls.
C10_StackStaysSorted ==
    (mapExists /\ ~lastOrderCall.misused) =>
        /\ StackSorted
        /\ (lastOrderCall.op # "none" /\ GetLayer(mapLayers, lastOrderCall.id)) =>
               DrawOrderOf(layerDrawOrder, lastOrderCall.id) = lastOrderCall.order

----------------------------------------------------------------------------
(* OvertureMap.applyLabelPriorities and OvertureMap.destroy on the live map *)

MaxLiveLayers == 3

\* this.labelPriority as the constructor sets it: <<layer id, symbol-sort-key>>
LabelPriority ==
    << <<"contour-text", 1000 - 51>>,
       <<"health-areas-labels-interior", 1000 - 80>>,
       <<"health-areas-labels-exterior", 1000 - 75>>,
       <<"health-zones-labels-interior", 1000 - 90>>,
       <<"health-zones-labels-exterior", 1000 - 85>>,
       <<"place-labels", 1000 - 100>>,
       <<"health-facilities-labels", 1000 - 101>>,
       <<"settlement-names-labels", 1000 - 50>> >>

\* 'Z-Order': 1000 - priority, as the hierarchy table prints it
ZOrder(priority) == 1000 - priority

\* map.setLayoutProperty(id, 'symbol-sort-key', value)
SetLayoutProperty_Inverted(keys, id, value) ==
    [ x \in DOMAIN keys \cup {id} |-> IF x = id THEN 1000 - value ELSE keys[x] ]

SetLayoutProperty(keys, id, value) ==
    [ x \in DOMAIN keys \cup {id} |-> IF x = id THEN value ELSE keys[x] ]

\* layer && layer.type === 'symbol'
IsLiveSymbol(layers, types, id) == GetLayer(layers, id) /\ types[id] = "symbol"

\* the loop over Object.entries(this.labelPriority), from entry i on
RECURSIVE ApplyFrom(_, _, _, _)
ApplyFrom(keys, layers, types, i) ==
    IF i > Len(LabelPriority) THEN keys
    ELSE LET id == LabelPriority[i][1]
             p  == LabelPriority[i][2]
         IN  ApplyFrom(IF IsLiveSymbol(layers, types, id)
                       THEN SetLayoutProperty(keys, id, p) ELSE keys,
                       layers, types, i + 1)

\* appliedCount
AppliedCount(layers, types) ==
    Cardinality({ i \in 1..Len(LabelPriority) :
                    IsLiveSymbol(layers, types, LabelPriority[i][1]) })

ApplyLabelPriorities ==
    /\ ~labelCall.done
    /\ IF ~mapExists
       THEN /\ labelCall' = [ done |-> TRUE, applied |-> 0 ]
            /\ UNCHANGED sortKeys
       ELSE /\ sortKeys' = ApplyFrom(sortKeys, mapLayers, layerTypes, 1)
            /\ labelCall' = [ done |-> TRUE,
                              applied |-> AppliedCount(mapLayers, layerTypes) ]
    /\ UNCHANGED <<tileConfigVars, urlVars, styleVars, orderVars, layerTypes, lifeVars,
                   metaVars, mobileVars, laterVars>>

\* destroy(): `if (!this.map) { this.map.remove(); }` calls remove() on null,
\* which raises a TypeError before the protocol is looked at
Destroy ==
    /\ destroyRet = "none"
    /\ IF ~mapExists
       THEN /\ destroyRet' = "TypeError"
            /\ UNCHANGED <<registered, mapRemoved>>
       ELSE /\ destroyRet' = "returned"
            /\ registered' = IF protocolSet THEN registered \ {"pmtiles"} ELSE registered
            /\ UNCHANGED mapRemoved
    /\ UNCHANGED <<tileConfigVars, urlVars, styleVars, orderVars, labelVars, protocolSet,
                   metaVars, mobileVars, laterVars>>

\* the 'beforeunload' listener
BeforeUnload ==
    /\ "pmtiles" \in registered
    /\ registered' = registered \ {"pmtiles"}
    /\ UNCHANGED <<tileConfigVars, urlVars, styleVars, orderVars, labelVars,
                   protocolSet, mapRemoved, destroyRet, metaVars, mobileVars, laterVars>>

\* the layers of the live style, their types, and the sort keys the style
\* itself gave them
LiveLayerIds == {"contour-text", "place-labels", "settlement-names-labels", "roads-solid"}
LiveStacks ==
    { q \in SeqsUpTo(LiveLayerIds, MaxLiveLayers) :
        \A i, j \in 1..Len(q) : i # j => q[i] # q[j] }
LayerTypeNames == {"symbol", "line"}
StyleSortKey == 7
IdsOf(q) == { q[i] : i \in 1..Len(q) }

InitLive ==
    /\ SelectedOnLocalhost
    /\ lastCall = NoCall
    /\ initLog = {}
    /\ UrlIdle
    /\ StyleIdle
    /\ layerDrawOrder = InitialLayerDrawOrder
    /\ sortArg = <<>>
    /\ lastOrderCall = NoOrderCall
    /\ labelCall = NoLabelCall
    /\ mapRemoved = FALSE
    /\ destroyRet = "none"
    /\ MetaIdle
    /\ MobileIdle
    /\ LaterIdle
    /\ \/ /\ initPc = "new"
          /\ mapExists = FALSE /\ protocolSet = FALSE /\ registered = {}
          /\ mapLayers = <<>> /\ layerTypes = NoProps /\ sortKeys = NoProps
       \/ /\ initPc = "create_map"
          /\ mapExists = FALSE /\ protocolSet = TRUE /\ registered = {"pmtiles"}
          /\ mapLayers = <<>> /\ layerTypes = NoProps /\ sortKeys = NoProps
       \/ /\ initPc = "done"
          /\ mapExists = TRUE /\ protocolSet = TRUE /\ registered = {"pmtiles"}
          /\ mapLayers \in LiveStacks
          /\ layerTypes \in [ IdsOf(mapLayers) -> LayerTypeNames ]
          /\ \E keyed \in SUBSET IdsOf(mapLayers) :
                 sortKeys = [ id \in keyed |-> StyleSortKey ]

NextLive ==
    \/ ApplyLabelPriorities
    \/ Destroy
    \/ BeforeUnload

SpecLive == InitLive /\ [][NextLive]_vars

C18_DestroyRemovesMapAndProtocol ==
    (destroyRet # "none" /\ initPc = "done") =>
        /\ mapRemoved
        /\ "pmtiles" \notin registered

----------------------------------------------------------------------------
(* The pmtiles app: src/pmtiles/app/src/config.ts *)

Unset == <<"#undefined">>       \* an environment variable the build did not set

\* import.meta.env[key] || defaultValue
GetEnvVar(e, key, defaultValue) ==
    IF e[key] = Unset \/ e[key] = <<>> THEN defaultValue ELSE e[key]

DefaultWorkerUrl == <<"https://pmtiles-cloudflare.mheaton-945.workers.dev">>

\* Object.keys(APP_CONFIG.tiles.sources), in order
SourceNames == <<"protomaps", "overture", "grid3">>

NoMaxzoom == -1                 \* maxzoom undefined

ArchiveSource(archiveName, attribution, maxzoom) ==
    [ archiveName |-> archiveName, attribution |-> attribution, maxzoom |-> maxzoom ]

\* APP_CONFIG.tiles as the module builds it at load
BuildAppConfig(e) ==
    [ cloudflareWorkerUrl |->
          GetEnvVar(e, "VITE_CLOUDFLARE_WORKER_URL", DefaultWorkerUrl),
      sources |->
          [ protomaps |-> ArchiveSource(
                GetEnvVar(e, "VITE_PROTOMAPS_ARCHIVE", <<"global">>),
                <<"<a href=\"https://github.com/protomaps/basemaps\">Protomaps</a>">>, 22),
            overture |-> ArchiveSource(
                GetEnvVar(e, "VITE_OVERTURE_ARCHIVE", <<"buildings">>),
                <<"<a href=\"https://overturemaps.org\">Overture Maps Foundation</a>">>, 14),
            grid3 |-> ArchiveSource(
                GetEnvVar(e, "VITE_GRID3_ARCHIVE", <<"grid3">>),
                <<"<a href=\"https://grid3.org\">GRID3</a>">>, 15) ] ]

\* config.sources[sourceName]: an own property, a member inherited from
\* Object.prototype, or undefined
ObjectPrototypeNames == {"constructor", "toString"}
Undefined == "undefined"
SourceLookup(config, name) ==
    IF name \in DOMAIN config.sources THEN "own"
    ELSE IF name \in ObjectPrototypeNames THEN "inherited"
    ELSE Undefined

\* JavaScript truthiness of a number that may be undefined, and of a string
TruthyNumber(n) == n # NoMaxzoom /\ n # 0
TruthyString(str) == str # <<>>

ErrWorkerUrl == <<"#Error", "VITE_CLOUDFLARE_WORKER_URL must be set">>
ErrSource(name) == <<"#Error", "Source '", name, "' not found in configuration">>

Thrown(name, err) == [ name |-> name, kind |-> "throw", error |-> err ]
Returned(name, tiles, attribution, maxzoom) ==
    [ name |-> name, kind |-> "return", tiles |-> tiles,
      attribution |-> attribution, maxzoom |-> maxzoom ]

\* `...(source.maxzoom && { maxzoom: source.maxzoom })`
SpreadMaxzoom(maxzoom) == IF TruthyNumber(maxzoom) THEN maxzoom ELSE NoMaxzoom

\* the template literal of the tile URL
TileUrlTemplate(workerUrl, archiveName) ==
    workerUrl \o <<"/">> \o archiveName \o <<"/{z}/{x}/{y}.mvt">>

GetTileSourceConfig(config, name) ==
    LET found  == SourceLookup(config, name)
        source == config.sources[name]
    IN  IF ~TruthyString(config.cloudflareWorkerUrl) THEN Thrown(name, ErrWorkerUrl)
        ELSE IF found = Undefined THEN Thrown(name, ErrSource(name))
        ELSE IF found = "inherited"
             \* a function of Object.prototype: its archiveName, attribution and
             \* maxzoom are undefined
             THEN Returned(name,
                           <<TileUrlTemplate(config.cloudflareWorkerUrl, <<Undefined>>)>>,
                           <<Undefined>>, NoMaxzoom)
        ELSE Returned(name,
                      <<TileUrlTemplate(config.cloudflareWorkerUrl, source.archiveName)>>,
                      source.attribution, SpreadMaxzoom(source.maxzoom))

ErrWorkerUrlRequired ==
    <<"Cloudflare Worker URL is required (", "VITE_CLOUDFLARE_WORKER_URL", ")">>
ErrArchiveName(name) == <<"Archive name is required for source '", name, "'">>
ErrAttribution(name) == <<"Attribution is required for source '", name, "'">>

\* the errors validateConfig() pushes for the sources from entry i on
RECURSIVE SourceErrors(_, _)
SourceErrors(config, i) ==
    IF i > Len(SourceNames) THEN <<>>
    ELSE LET name   == SourceNames[i]
             source == config.sources[name]
         IN  (IF ~TruthyString(source.archiveName) THEN <<ErrArchiveName(name)>> ELSE <<>>)
             \o (IF ~TruthyString(source.attribution) THEN <<ErrAttribution(name)>> ELSE <<>>)
             \o SourceErrors(config, i + 1)

ValidateConfig_AlwaysValid(config) ==
    [ called |-> TRUE, valid |-> TRUE, errors |-> SourceErrors(config, 1) ]

ValidateConfig(config) ==
    LET errors == (IF ~TruthyString(config.cloudflareWorkerUrl)
                   THEN <<ErrWorkerUrlRequired>> ELSE <<>>)
                  \o SourceErrors(config, 1)
    IN  [ called |-> TRUE, valid |-> (Len(errors) = 0), errors |-> errors ]

\* logConfig(): the loop calls getTileSourceConfig() for each source, and an
\* exception of that call leaves logConfig before validateConfig() is reached
LogConfig(config) ==
    IF \E i \in 1..Len(SourceNames) :
           GetTileSourceConfig(config, SourceNames[i]).kind = "throw"
    THEN LET i == CHOOSE k \in 1..Len(SourceNames) :
                     /\ GetTileSourceConfig(config, SourceNames[k]).kind = "throw"
                     /\ \A m \in 1..(k - 1) :
                            GetTileSourceConfig(config, SourceNames[m]).kind # "throw"
         IN  [ ret |-> GetTileSourceConfig(config, SourceNames[i]).error,
               warnings |-> <<>> ]
    ELSE LET v == ValidateConfig(config)
         IN  [ ret |-> <<"#returned">>,
               warnings |-> IF v.valid THEN <<>> ELSE v.errors ]

\* the names getTileSourceConfig() is called with
CallNames == {"protomaps", "overture", "grid3", "terrain", "constructor"}

CallGetTileSourceConfig ==
    /\ \E name \in CallNames : tsCall' = GetTileSourceConfig(appConfig, name)
    /\ UNCHANGED <<notApp, env, appConfig, validation, logOut, mount>>

CallValidateConfig ==
    /\ validation' = ValidateConfig(appConfig)
    /\ UNCHANGED <<notApp, env, appConfig, tsCall, logOut, mount>>

\* onMount: logConfig() is its first statement; an exception ends the callback
OnMountLogConfig ==
    /\ mount.pc = "idle"
    /\ logOut' = LogConfig(appConfig)
    /\ mount' = [ mount EXCEPT !.pc = IF LogConfig(appConfig).ret = <<"#returned">>
                                      THEN "logged" ELSE "failed" ]
    /\ UNCHANGED <<notApp, env, appConfig, tsCall, validation>>

\* onMount, after logConfig(): without a container it returns, else it goes
\* on to `new MaplibreMap`
OnMountCreateMap ==
    /\ mount.pc = "logged"
    /\ mount' = [ mount EXCEPT !.pc = IF mount.container THEN "map_created"
                                      ELSE "no_container" ]
    /\ UNCHANGED <<notApp, env, appConfig, tsCall, validation, logOut>>

NextApp ==
    \/ CallGetTileSourceConfig
    \/ CallValidateConfig
    \/ OnMountLogConfig
    \/ OnMountCreateMap

AppCallsIdle ==
    /\ tsCall = NoTsCall
    /\ validation = NoValidation
    /\ logOut = NoLogOut
    /\ mount \in { [ pc |-> "idle", container |-> c ] : c \in BOOLEAN }

\* the app as a build with some environment loads it
EnvValues == { Unset, <<>>, <<"https://x.example/worker">>, <<"custom">> }
InitAppEnv ==
    /\ LegacyIdle
    /\ RestIdle
    /\ OsmIdle
    /\ ScriptsIdle
    /\ env \in [ EnvKeys -> EnvValues ]
    /\ appConfig = BuildAppConfig(env)
    /\ AppCallsIdle

SpecAppEnv == InitAppEnv /\ [][NextApp]_vars

\* the app with any configuration of type TileConfig in APP_CONFIG.tiles
AppWorkerUrls == { <<>>, <<"https://x.example/worker">> }
AppArchiveNames == { <<>>, <<"buildings">> }
AppAttributions == { <<>>, <<"<a href=\"https://grid3.org\">GRID3</a>">> }
AppMaxzooms == { NoMaxzoom, 0, 14 }
\* a complete source with each max zoom, and the incomplete ones
AppSources ==
    { ArchiveSource(<<"buildings">>, <<"<a href=\"https://grid3.org\">GRID3</a>">>, z) :
        z \in AppMaxzooms }
    \cup { ArchiveSource(a, t, 14) : a \in AppArchiveNames, t \in AppAttributions }
AppConfigs ==
    [ cloudflareWorkerUrl : AppWorkerUrls,
      sources : [ {"protomaps", "overture", "grid3"} -> AppSources ] ]

InitAppConfig ==
    /\ LegacyIdle
    /\ RestIdle
    /\ OsmIdle
    /\ ScriptsIdle
    /\ env = NoEnv
    /\ appConfig \in AppConfigs
    /\ AppCallsIdle

SpecAppConfig == InitAppConfig /\ [][NextApp]_vars

IsSourceName(name) == \E i \in 1..Len(SourceNames) : SourceNames[i] = name

\* C12 as stated: with a worker URL configured, getTileSourceConfig(name) for
\* each of the three source names returns exactly one tile URL template
\* '{workerBaseUrl}/{archiveName}/{z}/{x}/{y}.mvt', the attribution verbatim,
\* and maxzoom equal to the configured value whenever one is configured; for
\* any other name it raises an error.
C12_TileSourceConfig ==
    (tsCall.kind # "none" /\ TruthyString(appConfig.cloudflareWorkerUrl)) =>
        IF IsSourceName(tsCall.name)
        THEN /\ tsCall.kind = "return"
             /\ tsCall.tiles =
                    << appConfig.cloudflareWorkerUrl \o <<"/">>
                       \o appConfig.sources[tsCall.name].archiveName
                       \o <<"/{z}/{x}/{y}.mvt">> >>
             /\ tsCall.attribution = appConfig.sources[tsCall.name].attribution
             /\ appConfig.sources[tsCall.name].maxzoom # NoMaxzoom =>
                    tsCall.maxzoom = appConfig.sources[tsCall.name].maxzoom
        ELSE tsCall.kind = "throw"

\* C13: validateConfig() returns valid exactly when its error list is empty;
\* the list holds one error for an empty worker URL, naming the worker URL,
\* and for each source one error for an empty archive name and one for an
\* empty attribution, and nothing else.
C13_ValidateConfig ==
    validation.called =>
        LET errs == validation.errors
            Count(err) == Cardinality({ i \in 1..Len(errs) : errs[i] = err })
        IN  /\ validation.valid <=> (errs = <<>>)
            /\ Count(ErrWorkerUrlRequired)
                  = (IF appConfig.cloudflareWorkerUrl = <<>> THEN 1 ELSE 0)
            /\ Includes(ErrWorkerUrlRequired, "VITE_CLOUDFLARE_WORKER_URL")
            /\ \A name \in DOMAIN appConfig.sources :
                  /\ Count(ErrArchiveName(name))
                        = (IF appConfig.sources[name].archiveName = <<>> THEN 1 ELSE 0)
                  /\ Count(ErrAttribution(name))
                        = (IF appConfig.sources[name].attribution = <<>> THEN 1 ELSE 0)
            /\ Len(errs) =
                  (IF appConfig.cloudflareWorkerUrl = <<>> THEN 1 ELSE 0)
                  + Cardinality({ name \in DOMAIN appConfig.sources :
                                    appConfig.sources[name].archiveName = <<>> })
                  + Cardinality({ name \in DOMAIN appConfig.sources :
                                    appConfig.sources[name].attribution = <<>> })

\* validateConfig() on a configuration with the three attributions missing
\* and nothing else: exactly three errors, one per source
C13_Witness ==
    /\ validation.called
    /\ appConfig.cloudflareWorkerUrl # <<>>
    /\ \A name \in DOMAIN appConfig.sources :
          /\ appConfig.sources[name].archiveName # <<>>
          /\ appConfig.sources[name].attribution = <<>>
    /\ ~validation.valid
    /\ Len(validation.errors) = 3

\* C14 as stated: for every configuration logConfig() returns normally, having
\* emitted the validation errors as warnings, and onMount is not stopped by it.
C14_LogConfigDiagnostic ==
    mount.pc # "idle" =>
        /\ logOut.ret = <<"#returned">>
        /\ logOut.warnings = ValidateConfig(appConfig).errors
        /\ mount.pc # "failed"

\* C15 as stated: with VITE_CLOUDFLARE_WORKER_URL unset or empty in the build
\* environment, getTileSourceConfig raises an error, validateConfig reports
\* the worker URL as missing, and no tile URL is built.
C15_MissingWorkerUrlFailsFast ==
    env["VITE_CLOUDFLARE_WORKER_URL"] \in {Unset, <<>>} =>
        /\ tsCall.kind # "none" => (tsCall.kind = "throw" /\ tsCall.error = ErrWorkerUrl)
        /\ validation.called =>
               (~validation.valid
                /\ \E i \in 1..Len(validation.errors) :
                       validation.errors[i] = ErrWorkerUrlRequired)

----------------------------------------------------------------------------
(* The pmtiles app: OSM composite feature ids, src/pmtiles/app/src/MapView.tsx *)
(* A BigInt is its bits, lowest first, in a vector of Width bits.           *)

Width  == 48
IdBits == 44

\* BigInt(k) for a small k
BigIntOf(k) ==
    [ i \in 1..Width |-> IF i = 1 THEN k % 2 ELSE IF i = 2 THEN (k \div 2) % 2 ELSE 0 ]

BitAnd(a, b) == [ i \in 1..Width |-> a[i] * b[i] ]
BitOr(a, b)  == [ i \in 1..Width |-> IF a[i] + b[i] > 0 THEN 1 ELSE 0 ]
ShiftLeft(a, k)  == [ i \in 1..Width |-> IF i - k >= 1 THEN a[i - k] ELSE 0 ]
ShiftRight(a, k) == [ i \in 1..Width |-> IF i + k <= Width THEN a[i + k] ELSE 0 ]

\* a - BigInt(1), for a # 0: the lowest set bit is cleared, the bits below it set
MinusOne(a) ==
    LET low == CHOOSE i \in 1..Width : a[i] = 1 /\ \A k \in 1..(i - 1) : a[k] = 0
    IN  [ i \in 1..Width |-> IF i < low THEN 1 ELSE IF i = low THEN 0 ELSE a[i] ]

\* Number(b): exact below 2^53; above, the bits under the 53 leading ones are lost
MantissaBits == 53
ToNumber(b) ==
    IF \A i \in 1..Width : i > MantissaBits => b[i] = 0 THEN b
    ELSE LET top == CHOOSE i \in 1..Width : b[i] = 1 /\ \A k \in (i + 1)..Width : b[k] = 0
         IN  [ i \in 1..Width |-> IF i > top - MantissaBits THEN b[i] ELSE 0 ]

\* Number(BigInt(raw) & ((BigInt(1) << BigInt(44)) - BigInt(1)))
FeatureIdToOsmId_Mask32(raw) ==
    ToNumber(BitAnd(raw, MinusOne(ShiftLeft(BigIntOf(1), 32))))

FeatureIdToOsmId(raw) ==
    ToNumber(BitAnd(raw, MinusOne(ShiftLeft(BigIntOf(1), IdBits))))

FeatureIdToOsmType(raw) ==
    LET t == BitAnd(ShiftRight(raw, IdBits), BigIntOf(3))
    IN  IF t = BigIntOf(1) THEN "node"
        ELSE IF t = BigIntOf(2) THEN "way"
        ELSE IF t = BigIntOf(3) THEN "relation"
        ELSE "not_osm"

\* displayId: a link to the OSM entity, or the feature id as it is
DisplayId(raw) ==
    IF (\E i \in 1..Width : raw[i] = 1) /\ FeatureIdToOsmType(raw) # "not_osm"
    THEN <<"https://openstreetmap.org/", FeatureIdToOsmType(raw), "/",
           FeatureIdToOsmId(raw)>>
    ELSE <<raw>>

\* (t << 44) | n
Encode(t, n) == BitOr(ShiftLeft(BigIntOf(t), IdBits), n)

\* entity ids in [0, 2^44): any of these bits set, and 2^44 - 1
EntityBitPositions == {1, 2, 23, 43, 44}
EntityIds ==
    { [ i \in 1..Width |-> IF i \in S THEN 1 ELSE 0 ] : S \in SUBSET EntityBitPositions }
    \cup { [ i \in 1..Width |-> IF i <= IdBits THEN 1 ELSE 0 ] }
TypeCodes == 0..3

InitOsm ==
    /\ LegacyIdle
    /\ RestIdle
    /\ AppIdle
    /\ ScriptsIdle
    /\ \E t \in TypeCodes, n \in EntityIds :
           osmIn = [ t |-> t, n |-> n, raw |-> Encode(t, n) ]
    /\ osmOut = NoOsmOut

CallFeatureIdToOsmId ==
    /\ osmOut' = [ osmOut EXCEPT !.id = FeatureIdToOsmId(osmIn.raw) ]
    /\ UNCHANGED <<notOsm, osmIn>>

CallFeatureIdToOsmType ==
    /\ osmOut' = [ osmOut EXCEPT !.type = FeatureIdToOsmType(osmIn.raw) ]
    /\ UNCHANGED <<notOsm, osmIn>>

CallDisplayId ==
    /\ osmOut' = [ osmOut EXCEPT !.display = DisplayId(osmIn.raw) ]
    /\ UNCHANGED <<notOsm, osmIn>>

NextOsm ==
    \/ CallFeatureIdToOsmId
    \/ CallFeatureIdToOsmType
    \/ CallDisplayId

SpecOsm == InitOsm /\ [][NextOsm]_vars

OsmTypeName(t) ==
    IF t = 1 THEN "node" ELSE IF t = 2 THEN "way" ELSE IF t = 3 THEN "relation"
    ELSE "not_osm"

\* C16: for an entity id n in [0, 2^44) and a type code t, featureIdToOsmId of
\* (t << 44) | n is n, featureIdToOsmType is node, way, relation for t = 1, 2,
\* 3 and not_osm for t = 0, and displayId links the entity by that type and id.
C16_OsmIdRoundTrip ==
    /\ osmOut.id # <<>> => osmOut.id = osmIn.n
    /\ osmOut.type # "" => osmOut.type = OsmTypeName(osmIn.t)
    /\ (osmOut.display # <<>> /\ osmIn.t # 0) =>
           osmOut.display = <<"https://openstreetmap.org/", OsmTypeName(osmIn.t), "/",
                              osmIn.n>>

\* a relation whose entity id has its highest and lowest bits set, decoded
C16_Witness ==
    /\ osmIn.t = 3
    /\ osmIn.n[IdBits] = 1 /\ osmIn.n[1] = 1
    /\ osmOut.id = osmIn.n
    /\ osmOut.type = "relation"
    /\ osmOut.display # <<>>

----------------------------------------------------------------------------
(* OvertureMap: constructor options and loadTileMetadata()                  *)
(* Coordinates are in hundredths of a degree.                               *)

\* { ...defaults, ...options }
ConstructOptions(c) ==
    [ DefaultOptions EXCEPT
        !.minZoom = IF c.minZoom # Absent THEN c.minZoom ELSE DefaultOptions.minZoom,
        !.maxZoom = IF c.maxZoom # Absent THEN c.maxZoom ELSE DefaultOptions.maxZoom ]

\* tilejsonUrl
TilejsonUrl ==
    IF currentEndpoint = "cloudflare" THEN endpoints.cloudflare.url \o <<"/tilejson.json">>
    ELSE IF currentEndpoint = "caddy" THEN endpoints.caddy.pmtiles \o <<"/tilejson.json">>
    ELSE <<"./tiles">> \o <<"/tilejson.json">>

\* the catch block's bounds and center
FallbackBounds == << <<2050, -750>>, <<2350, -400>> >>
FallbackCenter == <<2200, -575>>

\* bounds and center from a tilejson bounds array of four
BoundsOf(b) == << <<b[1], b[2]>>, <<b[3], b[4]>> >>
CenterOf(b) == << (b[1] + b[3]) \div 2, (b[2] + b[4]) \div 2 >>

\* const defaultMinZoom = 6
DefaultMinZoom == 6

\* `this.tileMetadata.minzoom !== undefined && this.options.minZoom === defaultMinZoom`
MinZoomAfter(opts, json) ==
    IF json.minzoom # Absent /\ opts.minZoom = DefaultMinZoom
    THEN json.minzoom ELSE opts.minZoom

\* the options after the try block ran on a tilejson document
OptionsFromMetadata(opts, json) ==
    LET withBounds ==
            IF Len(json.bounds) = 4
            THEN [ opts EXCEPT !.bounds = BoundsOf(json.bounds),
                               !.center = CenterOf(json.bounds) ]
            ELSE opts
    IN  [ withBounds EXCEPT !.minZoom = MinZoomAfter(opts, json) ]

\* the options after the catch block
OptionsFromFallback(opts) ==
    [ opts EXCEPT !.bounds = FallbackBounds, !.center = FallbackCenter ]

\* what the fetch of tilejson.json gives: no usable response (rejected, not ok,
\* not JSON), or a document
TilejsonMinzooms == {Absent, 0, 4, 6}
TilejsonMaxzooms == {Absent, 13}
TilejsonBounds   == { <<>>, <<2000, -800>>, <<2000, -800, 2400, -400>> }
TilejsonDocuments ==
    [ minzoom : TilejsonMinzooms, maxzoom : TilejsonMaxzooms, bounds : TilejsonBounds ]

LoadTileMetadataFailed ==
    /\ tileMetadata.state = "null"
    /\ tileMetadata.url = <<>>
    /\ tileMetadata' = [ state |-> "failed", url |-> TilejsonUrl ]
    /\ options' = OptionsFromFallback(options)
    /\ UNCHANGED <<tileConfigVars, urlVars, styleVars, orderVars, labelVars, lifeVars,
                   callerOptions, mobileVars, laterVars>>

LoadTileMetadataLoaded ==
    /\ tileMetadata.state = "null"
    /\ tileMetadata.url = <<>>
    /\ \E json \in TilejsonDocuments :
         /\ tileMetadata' = [ state |-> "loaded", url |-> TilejsonUrl, json |-> json ]
         /\ options' = OptionsFromMetadata(options, json)
    /\ UNCHANGED <<tileConfigVars, urlVars, styleVars, orderVars, labelVars, lifeVars,
                   callerOptions, mobileVars, laterVars>>

\* the options a caller constructs the viewer with
CallerMinZooms == {Absent, 0, 6, 8}
CallerMaxZooms == {Absent, 14, 22}

InitMeta ==
    /\ SelectedOnLocalhost
    /\ initPc = "await_select"
    /\ initLog = {}
    /\ lastCall = NoCall
    /\ UrlIdle
    /\ StyleIdle
    /\ OrderIdle
    /\ LabelIdle
    /\ LifeIdle
    /\ MobileIdle
    /\ LaterIdle
    /\ callerOptions \in [ minZoom : CallerMinZooms, maxZoom : CallerMaxZooms ]
    /\ options = ConstructOptions(callerOptions)
    /\ tileMetadata = NoMetadata

NextMeta ==
    \/ LoadTileMetadataFailed
    \/ LoadTileMetadataLoaded

SpecMeta == InitMeta /\ [][NextMeta]_vars

\* C17 as stated: after loadTileMetadata() a minZoom the caller supplied is
\* kept whatever its value, and maxZoom is what the constructor made it, on
\* every path.
C17_CallerZoomKept ==
    tileMetadata.state # "null" =>
        /\ callerOptions.minZoom # Absent => options.minZoom = callerOptions.minZoom
        /\ options.maxZoom = ConstructOptions(callerOptions).maxZoom

----------------------------------------------------------------------------
(* The shell scripts: src/custom/4-cloud/scripts/upload-pmtiles.sh and      *)
(* download-terrain.sh (src/unnamed/part_005)                               *)

MaxFiles == 4

\* the *.pmtiles files of the source directory, in glob order
ArchiveFiles == <<"base.pmtiles", "buildings.pmtiles", "grid3.pmtiles", "roads.pmtiles",
                  "water.pmtiles", "zones.pmtiles">>

\* BUCKET_NAME="${1:-grid3-tiles}": the default also replaces an empty argument
BucketName(arg) == IF arg = <<>> THEN <<"grid3-tiles">> ELSE arg

\* the exit status of `((expr))`: 1 when the expression's value is 0
ArithStatus(value) == IF value = 0 THEN 1 ELSE 0

Exit(run, status, lines) ==
    [ run EXCEPT !.pc = "exited", !.exit = status, !.out = run.out \o lines ]

\* lines 12-37: the header and the three checks
UploadStart ==
    /\ upload.pc = "start"
    /\ upload' =
         IF ~upload.installed
         THEN Exit(upload, 1, << <<"Error: wrangler is not installed">> >>)
         ELSE IF ~upload.dirExists
         THEN Exit(upload, 1, << <<"Error: PMTiles directory not found">> >>)
         ELSE IF upload.fileCount = 0
         THEN Exit(upload, 1, << <<"Error: No .pmtiles files found">> >>)
         ELSE [ upload EXCEPT !.pc = "loop", !.index = 1, !.uploadCount = 0,
                              !.out = upload.out
                                      \o << <<"Found", upload.fileCount, "files">> >> ]
    /\ UNCHANGED <<notScripts, terrain>>

\* one round of the loop, lines 41-56, under `set -e`: after a successful put
\* `((upload_count++))` has the old count as its value, and a status other
\* than 0 ends the script
UploadFile(ok) ==
    /\ upload.pc = "loop"
    /\ LET filename == ArchiveFiles[upload.index]
           key      == BucketName(upload.bucketArg) \o <<"/", filename>>
           put      == [ upload EXCEPT
                           !.puts = Append(upload.puts, [ key |-> key, ok |-> ok ]),
                           !.out = upload.out \o << <<"Uploading", filename>>,
                                       <<IF ok THEN "Success" ELSE "Failed">> >>,
                           !.uploadCount = IF ok THEN upload.uploadCount + 1
                                           ELSE upload.uploadCount ]
       IN  upload' =
             IF ok /\ ArithStatus(upload.uploadCount) # 0
             THEN Exit(put, ArithStatus(upload.uploadCount), <<>>)
             ELSE [ put EXCEPT !.index = upload.index + 1,
                               !.pc = IF upload.index = upload.fileCount
                                      THEN "tally" ELSE "loop" ]
    /\ UNCHANGED <<notScripts, terrain>>

\* lines 58-65
TallyLine(run) ==
    <<"Upload complete: ", run.uploadCount, "/", run.fileCount, " files uploaded">>

UploadTally ==
    /\ upload.pc = "tally"
    /\ upload' = Exit(upload, 0, <<TallyLine(upload)>>)
    /\ UNCHANGED <<notScripts, terrain>>

\* download-terrain.sh, a `#!/bin/sh` script without `set -e`: each command
\* runs whatever the status of the one before, and the script's status is
\* that of its last command
ExitStatuses == {0, 1, 3}

TerrainDownload ==
    /\ terrain.pc = "start"
    /\ \E status \in ExitStatuses :
         terrain' = [ terrain EXCEPT !.pc = "extract", !.download = status ]
    /\ UNCHANGED <<notScripts, upload>>

TerrainExtract ==
    /\ terrain.pc = "extract"
    /\ \E status \in ExitStatuses :
         terrain' = [ terrain EXCEPT !.pc = "exited", !.extractRun = TRUE,
                                     !.exit = status ]
    /\ UNCHANGED <<notScripts, upload>>

BucketArgs == { <<>>, <<"my-bucket">> }

InitScripts ==
    /\ LegacyIdle
    /\ RestIdle
    /\ AppIdle
    /\ OsmIdle
    /\ \E arg \in BucketArgs, inst \in BOOLEAN, dir \in BOOLEAN, n \in 0..MaxFiles :
         upload = [ NoUpload EXCEPT !.pc = "start", !.bucketArg = arg,
                                    !.installed = inst, !.dirExists = dir,
                                    !.fileCount = IF dir THEN n ELSE 0 ]
    /\ terrain = [ NoTerrain EXCEPT !.pc = "start" ]

NextScripts ==
    \/ UploadStart
    \/ \E ok \in BOOLEAN : UploadFile(ok)
    \/ UploadTally
    \/ TerrainDownload
    \/ TerrainExtract

SpecScripts == InitScripts /\ [][NextScripts]_vars

Succeeded(run) == Cardinality({ i \in 1..Len(run.puts) : run.puts[i].ok })

\* C19 as stated: with wrangler installed and N >= 1 archive files, the
\* script has, when it ends, attempted the upload of each of the N files
\* under its own name, whatever the earlier outcomes, and its last line is the
\* tally '<uploaded>/<N> files uploaded' with the number of successful uploads.
C19_EveryFileAttemptedAndTallied ==
    (upload.pc = "exited" /\ upload.installed /\ upload.dirExists
        /\ upload.fileCount >= 1) =>
        /\ Len(upload.puts) = upload.fileCount
        /\ \A i \in 1..Len(upload.puts) :
               upload.puts[i].key
                  = BucketName(upload.bucketArg) \o <<"/", ArchiveFiles[i]>>
        /\ upload.out[Len(upload.out)]
              = <<"Upload complete: ", Succeeded(upload), "/", upload.fileCount,
                  " files uploaded">>

\* C20 as stated: when the download fails the script stops with a non-zero
\* exit without running the extract step, and when the extract step fails the
\* script exits non-zero.
C20_TerrainFailFast ==
    /\ terrain.download > 0 => ~terrain.extractRun
    /\ (terrain.pc = "exited" /\ terrain.download > 0) => terrain.exit # 0
    /\ (terrain.pc = "exited" /\ terrain.extractRun) => terrain.exit >= 0

----------------------------------------------------------------------------
(* merge-grid3.sh (src/unnamed/part_006) *)

\* what the input directory can hold: [name, depth, type]
OutputName == "grid3.pmtiles"
DirEntry(name, depth, type) == [ name |-> name, depth |-> depth, type |-> type ]
MergeDirEntries ==
    { DirEntry("roads.pmtiles", 1, "f"), DirEntry("water.pmtiles", 1, "f"),
      DirEntry(OutputName, 1, "f"), DirEntry("readme.txt", 1, "f"),
      DirEntry("old.pmtiles", 1, "d"), DirEntry("deep.pmtiles", 2, "f") }

IsPmtilesName(name) ==
    name \in {"roads.pmtiles", "water.pmtiles", "grid3.pmtiles", "old.pmtiles",
              "deep.pmtiles"}

\* find "${INPUT_DIR}" -maxdepth 1 -name "*.pmtiles" -type f
FindArchives(dir) ==
    { x \in dir : x.depth <= 1 /\ IsPmtilesName(x.name) /\ x.type = "f" }

\* PMTILES_COUNT, line 33
PmtilesCount(dir) == Cardinality(FindArchives(dir))

\* the files line 44 lists: the same search with ! -name "grid3.pmtiles"
FilesToMerge(dir) == { x.name : x \in { y \in FindArchives(dir) : y.name # OutputName } }

\* lines 26-57: the checks, the count, the list and the call of the merge tool
MergeStart ==
    /\ merge.pc = "start"
    /\ merge' =
         IF ~merge.dirExists
         THEN [ merge EXCEPT !.pc = "exited", !.exit = 1 ]
         ELSE IF PmtilesCount(merge.dir) = 0
         THEN [ merge EXCEPT !.pc = "exited", !.exit = 1,
                             !.reported = PmtilesCount(merge.dir) ]
         ELSE [ merge EXCEPT !.pc = "merging", !.invoked = TRUE,
                             !.reported = PmtilesCount(merge.dir),
                             !.listed = FilesToMerge(merge.dir) ]
    /\ UNCHANGED <<notOps, manage, sprites, deploy>>

\* lines 59-82: the exit status follows the merge tool's
MergeEnd ==
    /\ merge.pc = "merging"
    /\ \E ok \in BOOLEAN :
         merge' = [ merge EXCEPT !.pc = "exited", !.exit = IF ok THEN 0 ELSE 1 ]
    /\ UNCHANGED <<notOps, manage, sprites, deploy>>

InitMerge ==
    /\ LegacyIdle
    /\ AppIdle /\ OsmIdle /\ ScriptsIdle /\ ViewIdle
    /\ manage = NotRun /\ sprites = NotRun /\ deploy = NotRun
    /\ \E exists \in BOOLEAN, dir \in SUBSET MergeDirEntries :
         merge = [ pc |-> "start", dirExists |-> exists,
                   dir |-> IF exists THEN dir ELSE {}, reported |-> -1,
                   listed |-> {}, invoked |-> FALSE, exit |-> -1 ]

NextMerge ==
    \/ MergeStart
    \/ MergeEnd

SpecMerge == InitMerge /\ [][NextMerge]_vars

\* the files that qualify as inputs: top-level *.pmtiles files but the output
MergeInputs(dir) ==
    { x \in dir : x.depth = 1 /\ x.type = "f" /\ IsPmtilesName(x.name)
                  /\ x.name # OutputName }

\* C21 as stated: the number reported as 'Found N PMTiles files to merge' is
\* the number of input files, the output grid3.pmtiles not counted, and the
\* script exits non-zero without invoking the merge tool exactly when there is
\* no input file.
C21_MergeCountsInputs ==
    (merge.pc \in {"merging", "exited"} /\ merge.dirExists) =>
        /\ merge.reported = Cardinality(MergeInputs(merge.dir))
        /\ merge.invoked <=> (MergeInputs(merge.dir) # {})
        /\ (MergeInputs(merge.dir) = {} /\ merge.pc = "exited") => merge.exit # 0

----------------------------------------------------------------------------
(* manage.sh (src/custom/3-server/manage.sh), a script under `set -e` *)

ManageCommands ==
    {"start", "stop", "restart", "rebuild", "logs", "status", "catalog", "psql",
     "backup", "restore", "clean", "help", "frobnicate", ""}
ManageArgs == {"", "tools"}

\* the docker-compose, docker and curl commands of each branch of the case
\* statement, in order
CommandActions(cmd, arg) ==
    CASE cmd = "start"   -> << IF arg = "tools" THEN "docker-compose --profile tools up -d"
                                                ELSE "docker-compose up -d",
                               "docker-compose ps" >>
      [] cmd = "stop"    -> << "docker-compose down" >>
      [] cmd = "restart" -> << "docker-compose restart" >>
      [] cmd = "rebuild" -> << "docker-compose down", "docker-compose build --no-cache",
                               "docker-compose up -d" >>
      [] cmd = "logs"    -> << "docker-compose logs -f" >>
      [] cmd = "status"  -> << "docker-compose ps", "curl caddy/health", "curl martin/health",
                               "docker-compose exec postgis pg_isready" >>
      [] cmd = "catalog" -> << "curl caddy/catalog" >>
      [] cmd = "psql"    -> << "docker-compose exec postgis psql" >>
      [] cmd = "backup"  -> << "docker-compose exec postgis pg_dump" >>
      [] cmd = "restore" -> IF arg = "" THEN <<>>
                            ELSE << "docker cp", "docker-compose exec postgis psql -f" >>
      [] cmd = "clean"   -> << "docker-compose down -v" >>
      [] OTHER           -> <<>>

\* the commands whose failure `set -e` does not act on: they stand in an
\* && / || list
Tolerated(action) ==
    action \in {"curl caddy/health", "curl martin/health", "curl caddy/catalog",
                "docker-compose exec postgis pg_isready"}

\* lines 31-55: without .env the template is copied, if there is one, and the
\* script exits with status 1 (or with cp's status when the copy fails)
ManageGuard_Continue ==
    /\ manage.pc = "start"
    /\ \E copied \in BOOLEAN :
         manage' =
           IF manage.envExists THEN [ manage EXCEPT !.pc = "dispatch" ]
           ELSE [ manage EXCEPT !.pc = "dispatch",
                                !.envExists = manage.templateExists /\ copied,
                                !.scaffolded = manage.templateExists /\ copied ]
    /\ UNCHANGED <<notOps, merge, sprites, deploy>>

ManageGuard ==
    /\ manage.pc = "start"
    /\ \E copied \in BOOLEAN :
         manage' =
           IF manage.envExists THEN [ manage EXCEPT !.pc = "dispatch" ]
           ELSE IF ~manage.templateExists
           THEN [ manage EXCEPT !.pc = "exited", !.exit = 1 ]
           ELSE [ manage EXCEPT !.pc = "exited", !.exit = 1,
                                !.envExists = copied, !.scaffolded = copied ]
    /\ UNCHANGED <<notOps, merge, sprites, deploy>>

\* lines 57-186: the commands of the branch run in order until one that is
\* not tolerated fails
ManageDispatch ==
    /\ manage.pc = "dispatch"
    /\ LET todo == CommandActions(manage.command, manage.arg)
       IN  \E k \in 0..Len(todo) :
             /\ k < Len(todo) => ~Tolerated(todo[k + 1])
             /\ manage' =
                  [ manage EXCEPT
                      !.pc = "exited",
                      !.actions = SubSeq(todo, 1, IF k < Len(todo) THEN k + 1 ELSE k),
                      !.exit = IF k < Len(todo) \/ (manage.command = "restore"
                                                     /\ manage.arg = "")
                               THEN 1 ELSE 0 ]
    /\ UNCHANGED <<notOps, merge, sprites, deploy>>

InitManage ==
    /\ LegacyIdle
    /\ AppIdle /\ OsmIdle /\ ScriptsIdle /\ ViewIdle
    /\ merge = NotRun /\ sprites = NotRun /\ deploy = NotRun
    /\ \E cmd \in ManageCommands, arg \in ManageArgs, e \in BOOLEAN, t \in BOOLEAN :
         manage = [ pc |-> "start", command |-> cmd, arg |-> arg, hadEnv |-> e,
                    envExists |-> e, templateExists |-> t, scaffolded |-> FALSE,
                    actions |-> <<>>, exit |-> -1 ]

NextManage ==
    \/ ManageGuard
    \/ ManageDispatch

SpecManage == InitManage /\ [][NextManage]_vars

\* C22: for every command, a run that found no .env file ends with a
\* non-zero exit before the dispatch, having performed no docker-compose,
\* docker or curl action, and has created .env only as a copy of an existing
\* .env.example.
C22_FirstRunGuard ==
    (manage.pc # "idle" /\ ~manage.hadEnv /\ manage.pc # "start") =>
        /\ manage.pc = "exited"
        /\ manage.exit # 0
        /\ manage.actions = <<>>
        /\ manage.scaffolded => manage.templateExists
        /\ manage.envExists <=> manage.scaffolded

\* `manage.sh start` without .env and with the template: .env scaffolded
C22_Witness ==
    /\ manage.pc = "exited"
    /\ manage.command = "start"
    /\ ~manage.hadEnv /\ manage.templateExists
    /\ manage.scaffolded /\ manage.envExists
    /\ manage.exit = 1
    /\ manage.actions = <<>>

----------------------------------------------------------------------------
(* generate-sprites.js (second script of src/custom/2-viewer/scripts/copy-tiles.js) *)

SvgNames == {"airport", "hospital"}
PngNames == {"school", "market"}

\* the two sprite configurations, by suffix
CONFIGS == << "", "@2x" >>

\* lines 118-138: the vector files of the sprites directory and the raster
\* files of its processing subdirectory, if that exists
AllFiles(s) == s.svg \cup (IF s.processingExists THEN s.png ELSE {})

\* lines 116-143: readdirSync throws when the sprites directory is missing
\* and the catch of line 221 exits with status 1; with no file found the
\* function logs and returns, the promise resolves and the process ends
\* with status 0
GenerateSpritesScan ==
    /\ sprites.pc = "start"
    /\ sprites' =
         IF ~sprites.dirExists
         THEN [ sprites EXCEPT !.pc = "exited", !.exit = 1 ]
         ELSE IF AllFiles(sprites) = {}
         THEN [ sprites EXCEPT !.pc = "exited", !.exit = 0 ]
         ELSE [ sprites EXCEPT !.pc = "config", !.next = 1 ]
    /\ UNCHANGED <<notOps, merge, manage, deploy>>

\* lines 147-215, one turn of the loop over CONFIGS: a rejected loadImage or
\* a stream error ends the process with status 1 through the catch
GenerateSpritesConfig(loaded) ==
    /\ sprites.pc = "config"
    /\ sprites' =
         IF ~loaded
         THEN [ sprites EXCEPT !.pc = "exited", !.exit = 1 ]
         ELSE [ sprites EXCEPT
                  !.written = @ \cup { <<"sprite", CONFIGS[sprites.next], ".png">>,
                                       <<"sprite", CONFIGS[sprites.next], ".json">> },
                  !.next = @ + 1,
                  !.pc = IF sprites.next = Len(CONFIGS) THEN "exited" ELSE "config",
                  !.exit = IF sprites.next = Len(CONFIGS) THEN 0 ELSE @ ]
    /\ UNCHANGED <<notOps, merge, manage, deploy>>

InitSprites ==
    /\ LegacyIdle
    /\ AppIdle /\ OsmIdle /\ ScriptsIdle /\ ViewIdle
    /\ merge = NotRun /\ manage = NotRun /\ deploy = NotRun
    /\ \E d \in BOOLEAN, p \in BOOLEAN, svg \in SUBSET SvgNames, png \in SUBSET PngNames :
         sprites = [ pc |-> "start", dirExists |-> d, processingExists |-> p,
                     svg |-> svg, png |-> png, next |-> 0, written |-> {},
                     exit |-> -1 ]

NextSprites ==
    \/ GenerateSpritesScan
    \/ \E loaded \in BOOLEAN : GenerateSpritesConfig(loaded)

SpecSprites == InitSprites /\ [][NextSprites]_vars

\* C23: a run that finds no vector file in the sprites directory and no
\* raster file in the processing subdirectory writes no sprite sheet and no
\* metadata file and ends with a non-zero exit status.
C23_NoArtworkFails ==
    (sprites.pc = "exited" /\ sprites.dirExists /\ AllFiles(sprites) = {}) =>
        /\ sprites.written = {}
        /\ sprites.exit # 0

----------------------------------------------------------------------------
(* deploy.sh (src/unnamed/part_004), a script under `set -e` *)

\* names are sequences of tokens, so that grep's matching inside a line is
\* computed
WorkerBucket == << "grid3-maptiles" >>
ArchiveName == << "planet.pmtiles" >>
AccountBuckets == { WorkerBucket, << "grid3-maptiles", "-staging" >> }
BucketObjects == { ArchiveName, << "planet.pmtiles", ".bak" >> }
Replies == {"y", "Y", "n", ""}

\* grep -q pattern: some line of the input holds the pattern somewhere
GrepQ(lines, pattern) ==
    \E l \in lines :
      \E i \in 1..Len(l) :
        /\ i + Len(pattern) - 1 <= Len(l)
        /\ SubSeq(l, i, i + Len(pattern) - 1) = pattern

\* [[ $REPLY =~ ^[Yy]$ ]]
IsYes(reply) == reply \in {"y", "Y"}

\* wrangler r2 object list grid3-maptiles: the listing of a bucket that does
\* not exist is empty
ObjectList(d) == IF WorkerBucket \in d.buckets THEN d.objects ELSE {}

DeployExit(d, status) == [ d EXCEPT !.pc = "exited", !.exit = status ]

\* lines 12-16
DeployCheckDirectory ==
    /\ deploy.pc = "start"
    /\ deploy' = IF ~deploy.manifest THEN DeployExit(deploy, 1)
                 ELSE [ deploy EXCEPT !.pc = "tooling" ]
    /\ UNCHANGED <<notOps, merge, manage, sprites>>

\* lines 19-24: npm install when wrangler is not installed
DeployTooling(ok) ==
    /\ deploy.pc = "tooling"
    /\ deploy' = IF deploy.wrangler THEN [ deploy EXCEPT !.pc = "auth" ]
                 ELSE IF ok THEN [ deploy EXCEPT !.pc = "auth", !.wrangler = TRUE ]
                 ELSE DeployExit(deploy, 1)
    /\ UNCHANGED <<notOps, merge, manage, sprites>>

\* lines 29-35: wrangler login when wrangler whoami fails
DeployAuth(ok) ==
    /\ deploy.pc = "auth"
    /\ deploy' = IF deploy.loggedIn THEN [ deploy EXCEPT !.pc = "bucket", !.auth = "verified" ]
                 ELSE IF ok THEN [ deploy EXCEPT !.pc = "bucket", !.auth = "login",
                                                 !.loggedIn = TRUE ]
                 ELSE DeployExit(deploy, 1)
    /\ UNCHANGED <<notOps, merge, manage, sprites>>

\* lines 40-53
DeployBucket(reply, ok) ==
    /\ deploy.pc = "bucket"
    /\ deploy' =
         IF GrepQ(deploy.buckets, WorkerBucket)
         THEN [ deploy EXCEPT !.pc = "archive" ]
         ELSE IF ~IsYes(reply)
         THEN DeployExit([ deploy EXCEPT !.refused = TRUE ], 1)
         ELSE IF ok
         THEN [ deploy EXCEPT !.pc = "archive", !.created = TRUE,
                              !.buckets = @ \cup { WorkerBucket } ]
         ELSE DeployExit(deploy, 1)
    /\ UNCHANGED <<notOps, merge, manage, sprites>>

\* lines 58-71
DeployArchive(reply) ==
    /\ deploy.pc = "archive"
    /\ deploy' =
         IF GrepQ(ObjectList(deploy), ArchiveName)
         THEN [ deploy EXCEPT !.pc = "deploy" ]
         ELSE IF ~IsYes(reply)
         THEN DeployExit([ deploy EXCEPT !.refused = TRUE ], 1)
         ELSE [ deploy EXCEPT !.pc = "deploy", !.agreed = TRUE ]
    /\ UNCHANGED <<notOps, merge, manage, sprites>>

\* lines 76-89: npm run deploy
DeployRun(ok) ==
    /\ deploy.pc = "deploy"
    /\ deploy' = DeployExit([ deploy EXCEPT !.deployed = TRUE ], IF ok THEN 0 ELSE 1)
    /\ UNCHANGED <<notOps, merge, manage, sprites>>

InitDeploy ==
    /\ LegacyIdle
    /\ AppIdle /\ OsmIdle /\ ScriptsIdle /\ ViewIdle
    /\ merge = NotRun /\ manage = NotRun /\ sprites = NotRun
    /\ \E m \in BOOLEAN, w \in BOOLEAN, l \in BOOLEAN,
          b \in SUBSET AccountBuckets, o \in SUBSET BucketObjects :
         deploy = [ pc |-> "start", manifest |-> m, wrangler |-> w, loggedIn |-> l,
                    hadBuckets |-> b, buckets |-> b, objects |-> o, auth |-> "none",
                    created |-> FALSE, agreed |-> FALSE, refused |-> FALSE,
                    deployed |-> FALSE, exit |-> -1 ]

NextDeploy ==
    \/ DeployCheckDirectory
    \/ \E ok \in BOOLEAN : DeployTooling(ok)
    \/ \E ok \in BOOLEAN : DeployAuth(ok)
    \/ \E reply \in Replies, ok \in BOOLEAN : DeployBucket(reply, ok)
    \/ \E reply \in Replies : DeployArchive(reply)
    \/ \E ok \in BOOLEAN : DeployRun(ok)

SpecDeploy == InitDeploy /\ [][NextDeploy]_vars

\* C24: the deployment runs only after the manifest was found,
\* authentication was verified or a login performed, the bucket
\* grid3-maptiles exists or was created after a positive answer, and the
\* archive planet.pmtiles exists in it or the user agreed to continue; a
\* negative answer ends the run with a non-zero exit and no deployment.
C24_DeployOnlyAfterChecks ==
    /\ deploy.pc # "idle" /\ deploy.deployed =>
         /\ deploy.manifest
         /\ deploy.auth \in {"verified", "login"}
         /\ WorkerBucket \in deploy.hadBuckets \/ deploy.created
         /\ ArchiveName \in ObjectList(deploy) \/ deploy.agreed
    /\ deploy.pc # "idle" /\ deploy.refused =>
         deploy.pc = "exited" /\ deploy.exit # 0 /\ ~deploy.deployed

----------------------------------------------------------------------------
(* OvertureMap.loadStyle(): every path, vector-tile mode included *)

\* window.location.origin + window.location.pathname.replace(/\/[^\/]*$/, '')
RECURSIVE JoinSegments(_)
JoinSegments(segs) ==
    IF Len(segs) <= 1 THEN <<>>
    ELSE <<"/", segs[2]>> \o JoinSegments(Tail(segs))
VectorBaseUrl ==
    <<"http://">> \o hostname \o JoinSegments(SubSeq(pathname, 1, Len(pathname) - 1))

\* tileUrl.replace('./', '/')
RECURSIVE ReplaceFirstDotSlash(_)
ReplaceFirstDotSlash(url) ==
    IF url = <<>> THEN <<>>
    ELSE IF Head(url) = "./" THEN <<"/">> \o Tail(url)
    ELSE <<Head(url)>> \o ReplaceFirstDotSlash(Tail(url))

\* the body of the loop of updateVectorTileUrls(style), for one source
UpdateVectorSource(source) ==
    IF source.type = "vector" /\ source.tiles # NoTiles
    THEN [ source EXCEPT
             !.tiles = [ i \in 1..Len(@) |->
                           IF @[i] # <<>> /\ Head(@[i]) \in {"./", "/"}
                           THEN VectorBaseUrl \o ReplaceFirstDotSlash(@[i])
                           ELSE @[i] ] ]
    ELSE source

\* the three layers addContourToStyle pushes
TerrainLayerIds == {"hills", "contours", "contour-text"}

\* the sources a style file can declare: an archive, a raster source with
\* absolute tiles, a vector source with relative tiles
PathSourceKinds(id) ==
    TemplateSourceKinds(id)
        \cup { Source("vector", NoUrl, << <<"./", "tiles/", id, "/{z}/{x}/{y}.pbf">> >>) }

PathLayerLists ==
    { << Layer("roads-solid", "s1"), Layer("poi-custom", "s2") >>,
      << Layer("poi-custom", "s3"), Layer("background", NoSource) >>,
      << Layer("placenames", "s2"), Layer("land", "s1"), Layer("roads-solid", "s3") >> }

PathTemplates ==
    { [ sources |-> ss, layers |-> ls ] :
        ss \in { f \in [SourceIds -> UNION { PathSourceKinds(id) : id \in SourceIds }] :
                   /\ \A id \in SourceIds : f[id] \in PathSourceKinds(id)
                   /\ f["s2"].type = "raster" },
        ls \in PathLayerLists }

\* the second fetch of vector-tile mode, of cartography.json (lines 605-610)
LoadStyleFetchFallback ==
    /\ stylePc = "fetch_fallback"
    /\ \E o \in FetchOutcomes :
         IF o = "ok"
         THEN /\ style' = styleTemplate
              /\ styleOrigin' = "template"
              /\ stylePc' = "fallback_update_urls"
         ELSE ReturnBasicStyle
    /\ UNCHANGED <<styleFrame, filterArg, filterRet, filterProbes>>

\* this.updatePMTilesUrls(style) of the fallback (line 611), which is not
\* followed by the filter
LoadStyleFallbackUpdateUrls ==
    /\ stylePc = "fallback_update_urls"
    /\ IF currentEndpoint = Null
          /\ \E id \in DOMAIN style.sources : UpdateSource(style.sources[id]) # style.sources[id]
       THEN ReturnBasicStyle
       ELSE /\ style' = [ style EXCEPT
                            !.sources = [ id \in DOMAIN @ |-> UpdateSource(@[id]) ] ]
            /\ stylePc' = "add_contour"
            /\ UNCHANGED styleOrigin
    /\ UNCHANGED <<styleFrame, filterArg, filterRet, filterProbes>>

\* this.updateVectorTileUrls(style) (line 624)
LoadStyleUpdateVectorUrls ==
    /\ stylePc = "update_vector_urls"
    /\ style' = [ style EXCEPT
                    !.sources = [ id \in DOMAIN @ |-> UpdateVectorSource(@[id]) ] ]
    /\ stylePc' = "add_contour"
    /\ UNCHANGED <<styleFrame, styleOrigin, filterArg, filterRet, filterProbes>>

InitStylePaths ==
    /\ SelectedOnLocalhost
    /\ initPc = "load_style"
    /\ initLog = {}
    /\ lastCall = NoCall
    /\ UrlIdle
    /\ LabelIdle /\ LifeIdle /\ MobileIdle /\ LaterIdle
    /\ callerOptions \in { [ minZoom |-> Absent, maxZoom |-> Absent, useVectorTiles |-> v ] :
                             v \in BOOLEAN }
    /\ options = [ DefaultOptions EXCEPT !.useVectorTiles = callerOptions.useVectorTiles ]
    /\ tileMetadata = NoMetadata
    /\ style = NoStyle
    /\ stylePc = "fetch_style"
    /\ filterArg = NoStyle
    /\ filterRet = NoStyle
    /\ filterProbes = {}
    /\ styleTemplate \in PathTemplates
    /\ styleOrigin = "none"
    /\ OrderIdle

NextStylePaths ==
    \/ LoadStyleFetch
    \/ LoadStyleFetchFallback
    \/ LoadStyleFallbackUpdateUrls
    \/ LoadStyleUpdateVectorUrls
    \/ LoadStyleUpdateUrls
    \/ LoadStyleFilter
    \/ LoadStyleAddContour
    \/ LoadStyleSort

SpecStylePaths == InitStylePaths /\ [][NextStylePaths]_vars

\* the place of a step of loadStyle() in the documented sequence
StepRank(pc) ==
    CASE pc \in {"fetch_style", "fetch_fallback"}                                  -> 0
      [] pc \in {"update_urls", "update_vector_urls", "fallback_update_urls"}      -> 1
      [] pc = "filter"                                                             -> 2
      [] pc = "add_contour"                                                        -> 3
      [] pc = "sort"                                                               -> 4
      [] OTHER                                                                     -> 5

LayerIdsOf(st) == { st.layers[i].id : i \in 1..Len(st.layers) }

----------------------------------------------------------------------------
(* MapLibreView (src/pmtiles/app/src/MapView.tsx): long-press timers *)

MaxTimers == 3

\* the events clearLongPress is registered for
ClearEvents ==
    {"touchend", "touchcancel", "touchmove", "pointerdrag", "pointermove", "moveend",
     "gesturestart", "gesturechange", "gestureend"}

NoTimer == 0            \* longPressTimeout before the first touchstart

\* map.on("touchstart"): a new timer is started and its handle overwrites
\* longPressTimeout; a timer pending from an earlier touchstart stays pending
TouchStart ==
    /\ press.pc = "mounted"
    /\ press.next <= MaxTimers
    /\ press' = [ press EXCEPT !.longPressTimeout = press.next,
                               !.pending = @ \cup { press.next },
                               !.next = @ + 1,
                               !.lastEvent = "touchstart" ]
    /\ UNCHANGED <<notView, reactive, errorView>>

\* clearLongPress: clearTimeout(longPressTimeout), for one of the nine events
ClearLongPress(event) ==
    /\ press.pc = "mounted"
    /\ press' = [ press EXCEPT !.pending = @ \ { press.longPressTimeout },
                               !.interrupted = @ \cup press.pending,
                               !.lastEvent = event ]
    /\ UNCHANGED <<notView, reactive, errorView>>

\* a pending timer's 500 ms are over: showContextMenu(e)
LongPressFire(id) ==
    /\ press.pc = "mounted"
    /\ id \in press.pending
    /\ press' = [ press EXCEPT !.pending = @ \ { id },
                               !.fired = @ \cup { id },
                               !.lastEvent = "timeout" ]
    /\ UNCHANGED <<notView, reactive, errorView>>

InitPress ==
    /\ LegacyIdle
    /\ AppIdle /\ OsmIdle /\ ScriptsIdle /\ OpsIdle
    /\ reactive = NotRun /\ errorView = NotRun
    /\ press = [ pc |-> "mounted", longPressTimeout |-> NoTimer, pending |-> {},
                 interrupted |-> {}, fired |-> {}, next |-> 1, lastEvent |-> "none" ]

NextPress ==
    \/ TouchStart
    \/ \E event \in ClearEvents : ClearLongPress(event)
    \/ \E id \in 1..MaxTimers : LongPressFire(id)

SpecPress == InitPress /\ [][NextPress]_vars

\* C26: after a touchend, touchcancel, touchmove, pointerdrag, pointermove,
\* moveend or gesture event no timer started by an earlier touchstart is
\* pending, and no context menu fires from a timer that such an event
\* followed, for every sequence of touch events.
C26_NoStaleLongPress ==
    press.pc = "mounted" =>
        /\ press.pending \cap press.interrupted = {}
        /\ press.fired \cap press.interrupted = {}

----------------------------------------------------------------------------
(* MapLibreView: the style memo and the effect that replaces the style *)

TileConfigs == 1..3         \* the tile-source configurations of a session
ZoomLevels == {6, 7, 8}       \* the values of the zoom signal
NotBuilt == 0               \* no style built yet

\* the component function and the first run of its effects, in creation
\* order: createMemo runs its function, which reads no signal before its
\* first await; onMount's function runs up to `await import(...)`, or
\* returns when there is no container; createEffect's function finds mapRef
\* undefined, so it does not read memoizedStyle and tracks nothing
RenderMapLibreView ==
    /\ reactive.pc = "render"
    /\ reactive' = [ reactive EXCEPT
                       !.pc = "rendered",
                       !.memoDeps = {},
                       !.memoConfig = reactive.config,
                       !.mount = IF reactive.container THEN "importing" ELSE "returned",
                       !.effectDeps = IF reactive.mapRef THEN {"memoizedStyle"} ELSE {},
                       !.thens = IF reactive.mapRef THEN @ + 1 ELSE @ ]
    /\ UNCHANGED <<notView, press, errorView>>

\* onMount after its import: the map is created with the style built from
\* the configuration of that moment, and mapRef is assigned, which is not a
\* signal
OnMountImported(ok) ==
    /\ reactive.pc = "rendered"
    /\ reactive.mount = "importing"
    /\ reactive' = IF ok
                   THEN [ reactive EXCEPT !.mount = "mounted", !.mapRef = TRUE,
                                          !.liveConfig = reactive.config ]
                   ELSE [ reactive EXCEPT !.mount = "rejected" ]
    /\ UNCHANGED <<notView, press, errorView>>

\* the promise of the memo resolves: the callbacks registered with then()
\* call map.setStyle(style)
MemoResolved ==
    /\ reactive.pc = "rendered"
    /\ ~reactive.memoResolved
    /\ reactive' = [ reactive EXCEPT
                       !.memoResolved = TRUE,
                       !.setStyleCalls = @ + reactive.thens,
                       !.liveConfig = IF reactive.thens > 0 THEN reactive.memoConfig
                                      ELSE @,
                       !.thens = 0 ]
    /\ UNCHANGED <<notView, press, errorView>>

\* the tile-source configuration changes: the memo is computed again if it
\* tracks the configuration, and then the effect runs again if it tracks
\* the memo
ChangeTileConfig(c) ==
    /\ reactive.pc = "rendered"
    /\ c # reactive.config
    /\ LET recompute == "config" \in reactive.memoDeps
           rerun == recompute /\ "memoizedStyle" \in reactive.effectDeps
       IN  reactive' = [ reactive EXCEPT
                           !.config = c,
                           !.memoConfig = IF recompute THEN c ELSE @,
                           !.memoResolved = IF recompute THEN FALSE ELSE @,
                           !.thens = IF rerun /\ reactive.mapRef THEN @ + 1 ELSE @ ]
    /\ UNCHANGED <<notView, press, errorView>>

\* map.on("idle") and map.on("zoom"): setZoom, a signal the JSX text reads
MapZoomed(z) ==
    /\ reactive.pc = "rendered"
    /\ reactive.mapRef
    /\ z # reactive.zoom
    /\ reactive' = [ reactive EXCEPT !.zoom = z ]
    /\ UNCHANGED <<notView, press, errorView>>

InitReactive ==
    /\ LegacyIdle
    /\ AppIdle /\ OsmIdle /\ ScriptsIdle /\ OpsIdle
    /\ press = NotRun /\ errorView = NotRun
    /\ \E container \in BOOLEAN, c \in TileConfigs :
         reactive = [ pc |-> "render", container |-> container, config |-> c,
                      memoDeps |-> {}, memoConfig |-> NotBuilt,
                      memoResolved |-> FALSE, mount |-> "none", mapRef |-> FALSE,
                      effectDeps |-> {}, thens |-> 0, setStyleCalls |-> 0,
                      liveConfig |-> NotBuilt, zoom |-> 0 ]

NextReactive ==
    \/ RenderMapLibreView
    \/ \E ok \in BOOLEAN : OnMountImported(ok)
    \/ MemoResolved
    \/ \E c \in TileConfigs : ChangeTileConfig(c)
    \/ \E z \in ZoomLevels : MapZoomed(z)

\* every pending promise settles and every queued callback runs
SpecReactive ==
    InitReactive /\ [][NextReactive]_vars /\ WF_vars(NextReactive)

\* C27: once the map instance exists, the computation of the style memo
\* leads to a call of map.setStyle on the live map, and after a change of
\* the tile-source configuration the live map gets the style built from the
\* new configuration.
C27_StyleReplacedOnLiveMap ==
    /\ (reactive.pc = "rendered" /\ reactive.mapRef) ~> (reactive.setStyleCalls > 0)
    /\ \A c \in TileConfigs :
         [](reactive.pc = "rendered" /\ reactive.mapRef /\ reactive.config = c)
             ~> (reactive.liveConfig = c)

----------------------------------------------------------------------------
(* MapLibreView: the map's 'error' event, in MapView.tsx and in the earlier
   variant of src/unnamed/part_002 *)

MaxErrors == 3
ErrorMessages == {"Failed to fetch", "404 tile", "style invalid"}
NoError == ""           \* the error signal holding undefined

\* <Show when={error()}>{error()}</Show> of the earlier variant; the current
\* return statement renders no such element
Overlay(v) == IF v.variant = "earlier" /\ v.error # NoError THEN v.error ELSE NoError

\* map.on("error"): console.error in MapView.tsx, setError(e.error.message)
\* in the earlier variant
MapError(message) ==
    /\ errorView.pc = "mounted"
    /\ Len(errorView.events) < MaxErrors
    /\ errorView' =
         IF errorView.variant = "current"
         THEN [ errorView EXCEPT !.console = Append(@, message),
                                 !.events = Append(@, message), !.last = "error" ]
         ELSE [ errorView EXCEPT !.error = message,
                                 !.events = Append(@, message), !.last = "error" ]
    /\ UNCHANGED <<notView, press, reactive>>

\* map.on("idle"): the earlier variant clears the error
MapIdle ==
    /\ errorView.pc = "mounted"
    /\ errorView.last = "error"
    /\ errorView' =
         IF errorView.variant = "current"
         THEN [ errorView EXCEPT !.last = "idle" ]
         ELSE [ errorView EXCEPT !.error = NoError, !.last = "idle" ]
    /\ UNCHANGED <<notView, press, reactive>>

InitErrorView ==
    /\ LegacyIdle
    /\ AppIdle /\ OsmIdle /\ ScriptsIdle /\ OpsIdle
    /\ press = NotRun /\ reactive = NotRun
    /\ \E variant \in {"current", "earlier"} :
         errorView = [ pc |-> "mounted", variant |-> variant, error |-> NoError,
                       console |-> <<>>, events |-> <<>>, last |-> "none" ]

NextErrorView ==
    \/ \E message \in ErrorMessages : MapError(message)
    \/ MapIdle

SpecErrorView == InitErrorView /\ [][NextErrorView]_vars

\* C28: right after a map 'error' event the overlay shows the message of
\* the error, in the current MapView and in its earlier variant.
C28_ErrorShownAsOverlay ==
    (errorView.pc = "mounted" /\ errorView.last = "error") =>
        Overlay(errorView) = errorView.events[Len(errorView.events)]

----------------------------------------------------------------------------
(* OvertureMap.setupMobileTouchOptimizations() and its handlers *)

MaxPendingTimers == 2

notMobile ==
    <<tileConfigVars, urlVars, styleVars, orderVars, labelVars, lifeVars, metaVars,
      laterVars>>

\* lines 1655-1660: nothing is registered without a map
SetupMobileTouchOptimizations ==
    /\ mobile.pc = "setup"
    /\ mobile' = IF ~mobile.hasMap THEN [ mobile EXCEPT !.pc = "returned" ]
                 ELSE [ mobile EXCEPT !.pc = "listening", !.touchAction = "pan-x pan-y" ]
    /\ UNCHANGED notMobile

\* map.on('touchstart')
MobileTouchStart ==
    /\ mobile.pc = "listening"
    /\ mobile' = [ mobile EXCEPT !.willChange = "transform" ]
    /\ UNCHANGED notMobile

\* map.on('touchend'): willChange goes back to 'auto' 200 ms later
MobileTouchEnd ==
    /\ mobile.pc = "listening"
    /\ mobile.willChangeTimers < MaxPendingTimers
    /\ mobile' = [ mobile EXCEPT !.willChangeTimers = @ + 1 ]
    /\ UNCHANGED notMobile

WillChangeTimeout ==
    /\ mobile.pc = "listening"
    /\ mobile.willChangeTimers > 0
    /\ mobile' = [ mobile EXCEPT !.willChangeTimers = @ - 1, !.willChange = "auto" ]
    /\ UNCHANGED notMobile

\* map.on('zoomstart'), fired by the map when a zoom begins
ZoomStart ==
    /\ mobile.pc = "listening"
    /\ ~mobile.zoomInProgress
    /\ mobile' = [ mobile EXCEPT !.zoomInProgress = TRUE, !.isZooming = TRUE,
                                 !.imageRendering = "pixelated" ]
    /\ UNCHANGED notMobile

\* map.on('zoomend')
ZoomEnd ==
    /\ mobile.pc = "listening"
    /\ mobile.zoomInProgress
    /\ mobile.isZooming => mobile.repaintTimers < MaxPendingTimers
    /\ mobile' = IF mobile.isZooming
                 THEN [ mobile EXCEPT !.zoomInProgress = FALSE, !.isZooming = FALSE,
                                      !.imageRendering = "auto",
                                      !.repaintTimers = @ + 1 ]
                 ELSE [ mobile EXCEPT !.zoomInProgress = FALSE ]
    /\ UNCHANGED notMobile

\* map.on('movestart'): touch says whether e.originalEvent is a touchstart
MoveStart(touch) ==
    /\ mobile.pc = "listening"
    /\ mobile.moveInProgress = "none"
    /\ mobile' = IF touch
                 THEN [ mobile EXCEPT !.moveInProgress = "touch", !.isDragging = TRUE,
                                      !.imageRendering = "optimizeSpeed" ]
                 ELSE [ mobile EXCEPT !.moveInProgress = "other" ]
    /\ UNCHANGED notMobile

\* map.on('moveend')
MoveEnd ==
    /\ mobile.pc = "listening"
    /\ mobile.moveInProgress # "none"
    /\ mobile.isDragging => mobile.repaintTimers < MaxPendingTimers
    /\ mobile' = IF mobile.isDragging
                 THEN [ mobile EXCEPT !.moveInProgress = "none", !.isDragging = FALSE,
                                      !.imageRendering = "auto",
                                      !.repaintTimers = @ + 1 ]
                 ELSE [ mobile EXCEPT !.moveInProgress = "none" ]
    /\ UNCHANGED notMobile

\* the 50 ms timer: this.map.triggerRepaint()
RepaintTimeout ==
    /\ mobile.pc = "listening"
    /\ mobile.repaintTimers > 0
    /\ mobile' = [ mobile EXCEPT !.repaintTimers = @ - 1 ]
    /\ UNCHANGED notMobile

InitMobile ==
    /\ ConstructedConfig("auto", <<"localhost">>, <<"", "">>, <<>>)
    /\ currentEndpoint = Null
    /\ selPc = "idle"
    /\ probes = <<>>
    /\ selResult = Null
    /\ initPc = "new"
    /\ initLog = {}
    /\ lastCall = NoCall
    /\ UrlIdle /\ StyleIdle /\ OrderIdle /\ LabelIdle /\ LifeIdle /\ MetaIdle
    /\ LaterIdle
    /\ \E hasMap \in BOOLEAN :
         mobile = [ pc |-> "setup", hasMap |-> hasMap, touchAction |-> "",
                    willChange |-> "", willChangeTimers |-> 0,
                    isZooming |-> FALSE, isDragging |-> FALSE,
                    zoomInProgress |-> FALSE, moveInProgress |-> "none",
                    imageRendering |-> "", repaintTimers |-> 0 ]

NextMobile ==
    \/ SetupMobileTouchOptimizations
    \/ MobileTouchStart
    \/ MobileTouchEnd
    \/ WillChangeTimeout
    \/ ZoomStart
    \/ ZoomEnd
    \/ \E touch \in BOOLEAN : MoveStart(touch)
    \/ MoveEnd
    \/ RepaintTimeout

SpecMobile == InitMobile /\ [][NextMobile]_vars

\* a zoom or a touch drag is in progress
GestureInProgress == mobile.zoomInProgress \/ mobile.moveInProgress = "touch"

\* C29: for every interleaving of zoomstart/zoomend and touch-initiated
\* movestart/moveend, imageRendering is 'pixelated' or 'optimizeSpeed' while
\* a zoom or a touch drag is in progress, and 'auto' once a gesture has been
\* made and none is in progress.
C29_QualityFollowsGestures ==
    mobile.pc = "listening" =>
        /\ GestureInProgress => mobile.imageRendering \in {"pixelated", "optimizeSpeed"}
        /\ (~GestureInProgress /\ mobile.imageRendering # "") =>
               mobile.imageRendering = "auto"

----------------------------------------------------------------------------
(* TileConfig: the local base path of the selected endpoint *)

\* C30: whenever selectBestEndpoint() has selected 'local', the base path
\* endpoints.local.pmtiles is a path and not null, for every hosting
\* context and every source mode.
C30_LocalBaseNonNull ==
    (selPc = "returned" /\ selResult = "local") => endpoints.local.pmtiles # NullStr

====
